---------------------------- MODULE Spec2Model ----------------------------
(***************************************************************************)
(* Model of src/services/geminiService.ts: the model-fallback request      *)
(* client (generateWithFallback), the response-shape selection             *)
(* (getSmartConfig), the JSON extraction (cleanJson), the use-case         *)
(* functions built on them and the session-scoped market-status cache      *)
(* (checkMarketStatus).                                                    *)
(*                                                                         *)
(* JavaScript strings are TLA+ strings; the i-th character of s is         *)
(* SubSeq(s, i, i).  The grave accent (U+0060) cannot be written inside a   *)
(* TLA+ string, so the modifier letter grave accent (U+02CB), a character   *)
(* outside the alphabet of the module, is written in its place everywhere:  *)
(* it is code unit 96, and the tilde "~" is code unit 126 (FENCE3 is the    *)
(* triple grave accent of a markdown code fence).                           *)
(***************************************************************************)
EXTENDS Integers, Sequences, FiniteSets, TLC

(***************************************************************************)
(* Strings                                                                 *)
(***************************************************************************)

\* s.charAt(i - 1): the i-th character, "" outside the string
Ch(s, i) == IF i >= 1 /\ i <= Len(s) THEN SubSeq(s, i, i) ELSE ""

\* s.substring(i - 1): the suffix of s from its i-th character
From(s, i) == IF i > Len(s) THEN "" ELSE SubSeq(s, i, Len(s))

\* s.startsWith(p, i - 1)
StartsAt(s, p, i) == i >= 1 /\ i + Len(p) - 1 <= Len(s) /\ SubSeq(s, i, i + Len(p) - 1) = p

\* String.prototype.includes
Includes(s, sub) == \E i \in 1..(Len(s) + 1) : StartsAt(s, sub, i)

\* the characters of the module by their code unit: LATIN1 holds U+0001 to
\* U+00FF in order (U+02CB in the place of the grave accent), CURRENCY holds the
\* block of the currency symbols, U+20A0 to U+20BF
LATIN1 == "\t\n\f\r !\"#$%&'()*+,-./0123456789:;<=>?@ABCDEFGHIJKLMNOPQRSTUVWXYZ[\\]^_ˋabcdefghijklmnopqrstuvwxyz{|}~ ¡¢£¤¥¦§¨©ª«¬­®¯°±²³´µ¶·¸¹º»¼½¾¿ÀÁÂÃÄÅÆÇÈÉÊËÌÍÎÏÐÑÒÓÔÕÖ×ØÙÚÛÜÝÞßàáâãäåæçèéêëìíîïðñòóôõö÷øùúûüýþÿ"

CURRENCY == "₠₡₢₣₤₥₦₧₨₩₪₫€₭₮₯₰₱₲₳₴₵₶₷₸₹₺₻₼₽₾₿"

\* the first code unit of the block of the currency symbols
CURRENCY_BASE == 8352

\* U+FEFF, the byte order mark
BOM == "﻿"

\* U+FFFD, the replacement character
REPLACEMENT == "�"

\* String.fromCharCode(n) for the code units of the characters of the module
\* (65279 is U+FEFF, 65533 is U+FFFD); any other code unit is a character the
\* module cannot write and has no value here
CodeUnit(n) ==
  CASE n >= 1 /\ n <= Len(LATIN1) -> Ch(LATIN1, n)
    [] n >= CURRENCY_BASE /\ n < CURRENCY_BASE + Len(CURRENCY) ->
         Ch(CURRENCY, n - CURRENCY_BASE + 1)
    [] n = 65279 -> BOM
    [] n = 65533 -> REPLACEMENT

\* c.charCodeAt(0) of a character of the module
CodeOf(c) ==
  CASE c = BOM -> 65279
    [] c = REPLACEMENT -> 65533
    [] \E n \in 1..Len(CURRENCY) : Ch(CURRENCY, n) = c ->
         CURRENCY_BASE - 1 + CHOOSE n \in 1..Len(CURRENCY) : Ch(CURRENCY, n) = c
    [] OTHER -> CHOOSE n \in 1..Len(LATIN1) :
                  Ch(LATIN1, n) = c /\ \A m \in 1..(n - 1) : Ch(LATIN1, m) # c

\* the characters before U+0020
CONTROLS == {Ch(LATIN1, n) : n \in 1..31}

IsControl(c) == c \in CONTROLS

\* the characters the regular expression class \s, String.prototype.trim and
\* parseInt treat as white space, among the characters of the module: tab,
\* line feed, vertical tab, form feed, carriage return, space, no-break space,
\* byte order mark
SPACES == {" ", "\n", "\t", "\r", "\f", CodeUnit(11), CodeUnit(160), BOM}

IsSpace(c) == c \in SPACES

Digits == <<"0", "1", "2", "3", "4", "5", "6", "7", "8", "9">>

IsDigit(c) == \E d \in 1..10 : Digits[d] = c

DigitVal(c) == (CHOOSE d \in 1..10 : Digits[d] = c) - 1

HexLower == <<"a", "b", "c", "d", "e", "f">>

HexUpper == <<"A", "B", "C", "D", "E", "F">>

IsHexDigit(c) == IsDigit(c) \/ \E d \in 1..6 : HexLower[d] = c \/ HexUpper[d] = c

HexVal(c) ==
  IF IsDigit(c) THEN DigitVal(c)
  ELSE 9 + (CHOOSE d \in 1..6 : HexLower[d] = c \/ HexUpper[d] = c)

RECURSIVE NatToString(_)
\* Number.prototype.toString of a non-negative integer (now.toString())
NatToString(n) == IF n < 10 THEN Digits[n + 1] ELSE NatToString(n \div 10) \o Digits[(n % 10) + 1]

\* the value "not a number" of JavaScript: the numbers of the module are the
\* integers of 32 bits in the symmetric range, NaN is the one integer of 32
\* bits below them
NaN == -2147483647 - 1

RECURSIVE DigitsValue(_, _, _)
\* the value of the longest run of decimal digits of s starting at i, acc so far
DigitsValue(s, i, acc) ==
  IF IsDigit(Ch(s, i)) THEN DigitsValue(s, i + 1, acc * 10 + DigitVal(Ch(s, i))) ELSE acc

RECURSIVE HexDigitsValue(_, _, _)
\* the value of the longest run of hexadecimal digits of s starting at i
HexDigitsValue(s, i, acc) ==
  IF IsHexDigit(Ch(s, i)) THEN HexDigitsValue(s, i + 1, acc * 16 + HexVal(Ch(s, i))) ELSE acc

RECURSIVE SkipSpace(_, _)
\* the first index >= i of s that holds no white space
SkipSpace(s, i) == IF IsSpace(Ch(s, i)) THEN SkipSpace(s, i + 1) ELSE i

\* parseInt(s) with no radix: leading white space is skipped, a sign is read,
\* the prefix 0x or 0X selects the radix 16, the leading digits of the radix
\* are read and anything after them is ignored; no digit gives NaN
parseInt(s) ==
  LET i == SkipSpace(s, 1)
      j == IF Ch(s, i) \in {"+", "-"} THEN i + 1 ELSE i
      sign == IF Ch(s, i) = "-" THEN -1 ELSE 1
      hex == Ch(s, j) = "0" /\ Ch(s, j + 1) \in {"x", "X"}
  IN IF hex
     THEN (IF IsHexDigit(Ch(s, j + 2)) THEN sign * HexDigitsValue(s, j + 2, 0) ELSE NaN)
     ELSE (IF IsDigit(Ch(s, j)) THEN sign * DigitsValue(s, j, 0) ELSE NaN)

RECURSIVE join(_, _)
\* Array.prototype.join
join(lines, sep) ==
  IF Len(lines) = 0 THEN ""
  ELSE IF Len(lines) = 1 THEN lines[1]
  ELSE lines[1] \o sep \o join(Tail(lines), sep)

(***************************************************************************)
(* The numbers of 64 bits (IEEE 754 binary64)                              *)
(*                                                                         *)
(* JSON.parse reads a number as the nearest number of 64 bits, ties to the *)
(* even one, and Number.prototype.toString writes the shortest decimal     *)
(* that reads back as the same number, the closest one when there are      *)
(* several.  Both are computed on natural numbers of any size, kept as a   *)
(* sequence of limbs in base 10^8, the least significant first, with no    *)
(* zero limb at the top (zero is the empty sequence).                      *)
(***************************************************************************)

RECURSIVE StripLeadingZeros(_)
StripLeadingZeros(d) == IF d # "" /\ Ch(d, 1) = "0" THEN StripLeadingZeros(From(d, 2)) ELSE d

RECURSIVE StripTrailingZeros(_)
StripTrailingZeros(d) ==
  IF d # "" /\ Ch(d, Len(d)) = "0" THEN StripTrailingZeros(SubSeq(d, 1, Len(d) - 1)) ELSE d

RECURSIVE Zeros(_)
Zeros(n) == IF n <= 0 THEN "" ELSE "0" \o Zeros(n - 1)

LIMB == 100000000

LIMB_DIGITS == 8

\* 2^4, the largest factor of one multiplication
CHUNK == 16

CHUNK_BITS == 4

RECURSIVE BigNorm(_)
BigNorm(a) == IF a # <<>> /\ a[Len(a)] = 0 THEN BigNorm(SubSeq(a, 1, Len(a) - 1)) ELSE a

Limb(a, i) == IF i <= Len(a) THEN a[i] ELSE 0

\* the sequence of the n limbs f[1], ..., f[n]
Limbs(f, n) == SubSeq(f, 1, n)

RECURSIVE CarryOf(_, _, _)
\* the carry out of the limb i of the sums s, no carry being above max: the
\* limbs below i matter only when s[i] is within max of a multiple of LIMB
CarryOf(s, i, max) ==
  IF i = 0 THEN 0
  ELSE IF (s[i] % LIMB) + max < LIMB THEN s[i] \div LIMB
  ELSE (s[i] + CarryOf(s, i - 1, max)) \div LIMB

\* the number of the sums s, limb by limb
Carried(s, max) ==
  IF s = <<>> THEN <<>>
  ELSE BigNorm(Limbs([i \in 1..(Len(s) + 1) |-> (Limb(s, i) + CarryOf(s, i - 1, max)) % LIMB],
                     Len(s) + 1))

Longest(a, b) == IF Len(a) < Len(b) THEN Len(b) ELSE Len(a)

BigAdd(a, b) ==
  Carried(Limbs([i \in 1..Longest(a, b) |-> Limb(a, i) + Limb(b, i)], Longest(a, b)), 1)

RECURSIVE BorrowOf(_, _)
\* the borrow out of the limb i of the differences d
BorrowOf(d, i) ==
  IF i = 0 THEN 0 ELSE IF d[i] < 0 THEN 1 ELSE IF d[i] > 0 THEN 0 ELSE BorrowOf(d, i - 1)

Borrowed(d) ==
  IF d = <<>> THEN <<>>
  ELSE BigNorm(Limbs([i \in 1..Len(d) |-> (d[i] - BorrowOf(d, i - 1) + LIMB) % LIMB], Len(d)))

\* a - b for a >= b
BigSub(a, b) == Borrowed(Limbs([i \in 1..Len(a) |-> a[i] - Limb(b, i)], Len(a)))

BigLess(a, b) ==
  \/ Len(a) < Len(b)
  \/ /\ Len(a) = Len(b)
     /\ \E i \in 1..Len(a) : a[i] < b[i] /\ \A j \in (i + 1)..Len(a) : a[j] = b[j]

\* a * f for a factor f up to CHUNK
BigTimes(a, f) == Carried(Limbs([i \in 1..Len(a) |-> a[i] * f], Len(a)), f - 1)

RECURSIVE BigShift(_, _)
\* a * 2^k
BigShift(a, k) ==
  IF a = <<>> \/ k <= 0 THEN a
  ELSE IF k >= 2 * CHUNK_BITS THEN BigShift(BigShift(a, k \div 2), k - k \div 2)
  ELSE IF k >= CHUNK_BITS THEN BigShift(BigTimes(a, CHUNK), k - CHUNK_BITS)
  ELSE BigShift(BigTimes(a, 2), k - 1)

RECURSIVE BigScale(_, _)
\* a * 10^k
BigScale(a, k) ==
  IF a = <<>> \/ k <= 0 THEN a
  ELSE IF k >= LIMB_DIGITS
  THEN BigScale(Limbs([i \in 1..(k \div LIMB_DIGITS) |-> 0], k \div LIMB_DIGITS) \o a,
                k % LIMB_DIGITS)
  ELSE BigScale(BigTimes(a, 10), k - 1)

\* the natural number written with the decimal digits d
BigOfDigits(d) ==
  BigNorm(Limbs([i \in 1..((Len(d) + LIMB_DIGITS - 1) \div LIMB_DIGITS) |->
                  DigitsValue(SubSeq(d, IF Len(d) - LIMB_DIGITS * i + 1 < 1 THEN 1
                                        ELSE Len(d) - LIMB_DIGITS * i + 1,
                                     Len(d) - LIMB_DIGITS * (i - 1)), 1, 0)],
                (Len(d) + LIMB_DIGITS - 1) \div LIMB_DIGITS))

\* the number of binary digits of the significand, 2^52 and 2^53
SIGNIFICAND_BITS == 53

P52 == BigShift(<<1>>, SIGNIFICAND_BITS - 1)

P53 == BigShift(<<1>>, SIGNIFICAND_BITS)

\* the exponent of the smallest and of the largest number m * 2^e with a
\* significand m below 2^53
MIN_EXPONENT == -1074

MAX_EXPONENT == 971

\* a number of 64 bits above zero is <<m, e>>, the number m * 2^e with
\* 2^52 <= m < 2^53, or m < 2^52 and e = MIN_EXPONENT; <<>> with e = 0 is zero
\* and with e = 1 is Infinity
Zero64 == << <<>>, 0 >>

Infinity64 == << <<>>, 1 >>

\* the scalings go by leaps, then by hops, then by single steps
LEAP == 64

HOP == 8

RECURSIVE ScaleUp(_, _, _)
\* <<t, e>> with t doubled until n < 2 * t, e counting the doublings
ScaleUp(n, t, e) ==
  IF ~BigLess(n, BigShift(t, LEAP)) THEN ScaleUp(n, BigShift(t, LEAP), e + LEAP)
  ELSE IF ~BigLess(n, BigShift(t, HOP)) THEN ScaleUp(n, BigShift(t, HOP), e + HOP)
  ELSE IF ~BigLess(n, BigShift(t, 1)) THEN ScaleUp(n, BigShift(t, 1), e + 1)
  ELSE <<t, e>>

RECURSIVE ScaleDown(_, _, _)
\* <<n, e>> with n doubled until t <= n or e = MIN_EXPONENT
ScaleDown(n, t, e) ==
  IF e - LEAP >= MIN_EXPONENT /\ ~BigLess(t, BigShift(n, LEAP))
  THEN ScaleDown(BigShift(n, LEAP), t, e - LEAP)
  ELSE IF e - HOP >= MIN_EXPONENT /\ ~BigLess(t, BigShift(n, HOP))
  THEN ScaleDown(BigShift(n, HOP), t, e - HOP)
  ELSE IF e > MIN_EXPONENT /\ BigLess(n, t) THEN ScaleDown(BigShift(n, 1), t, e - 1)
  ELSE <<n, e>>

\* one binary digit more of the division by t: q = <<the digits so far,
\* twice the remainder>>
DivideStep(q, t) ==
  IF BigLess(q[2], t) THEN <<BigTimes(q[1], 2), BigTimes(q[2], 2)>>
  ELSE <<BigAdd(BigTimes(q[1], 2), <<1>>), BigTimes(BigSub(q[2], t), 2)>>

RECURSIVE DivideBits(_, _, _)
\* steps binary digits more (the digits stay below 2^53)
DivideBits(q, t, steps) ==
  IF steps = 0 \/ ~BigLess(q[1], P53) THEN q
  ELSE DivideBits(DivideStep(q, t), t, steps - 1)

RECURSIVE Divide(_, _, _)
\* the same, a hop of digits at a time
Divide(q, t, steps) ==
  IF steps <= HOP \/ ~BigLess(q[1], P53) THEN DivideBits(q, t, steps)
  ELSE Divide(DivideBits(q, t, HOP), t, steps - HOP)

\* the significand m rounded by the remainder: up when the remainder is above
\* the half, and at the half when m is odd
Rounded(m, twice, t) ==
  IF BigLess(t, twice) \/ (twice = t /\ m # <<>> /\ m[1] % 2 = 1) THEN BigAdd(m, <<1>>) ELSE m

\* the number of 64 bits with the significand m and the exponent e
Number64(m, e) ==
  IF m = <<>> THEN Zero64
  ELSE IF m = P53 THEN (IF e + 1 > MAX_EXPONENT THEN Infinity64 ELSE <<P52, e + 1>>)
  ELSE IF e > MAX_EXPONENT THEN Infinity64
  ELSE <<m, e>>

\* the number nearest to n / t * 2^(e + 52), for n / t < 2 and either
\* 1 <= n / t or e = MIN_EXPONENT
NearestScaled(t, e, q) == Number64(Rounded(q[1], q[2], t), e)

NearestFrom(nd, t) == NearestScaled(t, nd[2], Divide(<< <<>>, nd[1] >>, t, SIGNIFICAND_BITS))

NearestOver(n, te) == NearestFrom(ScaleDown(n, te[1], te[2]), te[1])

\* the number of 64 bits nearest to n / d, for n above zero
Nearest(n, d) == NearestOver(n, ScaleUp(n, d, 1 - SIGNIFICAND_BITS))

\* the number of 64 bits nearest to d * 10^q, d being decimal digits
ToNumber64(d, q) ==
  IF StripLeadingZeros(d) = "" THEN Zero64
  ELSE IF q >= 0 THEN Nearest(BigScale(BigOfDigits(d), q), <<1>>)
  ELSE Nearest(BigOfDigits(d), BigScale(<<1>>, 0 - q))

\* the neighbours of x = <<m, e>> are at the same distance on both sides,
\* unless m is 2^52 (the number below is then half as far)
EvenGaps(x) == x[1] # P52 \/ x[2] = MIN_EXPONENT

\* the printing of x = r / s, m+ / s and m- / s being half the distance to the
\* number above and below (Steele and White, Burger and Dybvig): <<r, s, m+, m->>
Fraction(x) ==
  IF x[2] >= 0
  THEN (IF EvenGaps(x)
        THEN <<BigShift(x[1], x[2] + 1), <<2>>, BigShift(<<1>>, x[2]), BigShift(<<1>>, x[2])>>
        ELSE <<BigShift(x[1], x[2] + 2), <<4>>, BigShift(<<1>>, x[2] + 1), BigShift(<<1>>, x[2])>>)
  ELSE (IF EvenGaps(x)
        THEN <<BigTimes(x[1], 2), BigShift(<<1>>, 1 - x[2]), <<1>>, <<1>>>>
        ELSE <<BigTimes(x[1], 4), BigShift(<<1>>, 2 - x[2]), <<2>>, <<1>>>>)

\* a < b, or a <= b when ok
Below(a, b, ok) == BigLess(a, b) \/ (ok /\ a = b)

RECURSIVE ScaleK(_, _, _, _, _, _)
\* <<r, s, m+, m-, k>> with k the least exponent of ten above the range of
\* the decimals that read as x: s grows, or r, m+ and m- grow, by powers of
\* ten
ScaleK(r, s, mp, mm, k, ok) ==
  IF Below(BigScale(s, LEAP), BigAdd(r, mp), ok)
  THEN ScaleK(r, BigScale(s, LEAP), mp, mm, k + LEAP, ok)
  ELSE IF Below(BigScale(s, HOP), BigAdd(r, mp), ok)
  THEN ScaleK(r, BigScale(s, HOP), mp, mm, k + HOP, ok)
  ELSE IF Below(s, BigAdd(r, mp), ok) THEN ScaleK(r, BigScale(s, 1), mp, mm, k + 1, ok)
  ELSE IF BigLess(BigScale(BigAdd(r, mp), LEAP), s) /\ BigLess(mm, s)
  THEN ScaleK(BigScale(r, LEAP), s, BigScale(mp, LEAP), BigScale(mm, LEAP), k - LEAP, ok)
  ELSE IF BigLess(BigScale(BigAdd(r, mp), HOP), s) /\ BigLess(mm, s)
  THEN ScaleK(BigScale(r, HOP), s, BigScale(mp, HOP), BigScale(mm, HOP), k - HOP, ok)
  ELSE IF Below(BigScale(BigAdd(r, mp), 1), s, ~ok)
  THEN ScaleK(BigScale(r, 1), s, BigScale(mp, 1), BigScale(mm, 1), k - 1, ok)
  ELSE <<r, s, mp, mm, k>>

RECURSIVE Quotient(_, _, _)
\* <<the quotient, the remainder>> of r by s, for a quotient below ten
Quotient(r, s, d) == IF BigLess(r, s) THEN <<d, r>> ELSE Quotient(BigSub(r, s), s, d + 1)

RECURSIVE Generate(_, _, _, _, _)
\* the shortest digits: r, m+ and m- come multiplied by ten, qr is the
\* quotient and the remainder of r by s; of two last digits that both read
\* as the number the closest is taken, the even one when they are as close
Generate(qr, s, mp, mm, ok) ==
  IF ~Below(qr[2], mm, ok)
  THEN (IF ~Below(s, BigAdd(qr[2], mp), ok)
        THEN Digits[qr[1] + 1]
             \o Generate(Quotient(BigTimes(qr[2], 10), s, 0), s, BigTimes(mp, 10), BigTimes(mm, 10), ok)
        ELSE Digits[qr[1] + 2])
  ELSE (IF ~Below(s, BigAdd(qr[2], mp), ok) THEN Digits[qr[1] + 1]
        ELSE IF BigLess(BigTimes(qr[2], 2), s) THEN Digits[qr[1] + 1]
        ELSE IF BigTimes(qr[2], 2) = s /\ qr[1] % 2 = 0 THEN Digits[qr[1] + 1]
        ELSE Digits[qr[1] + 2])

ShortestFrom(f, ok) ==
  <<Generate(Quotient(BigTimes(f[1], 10), f[2], 0), f[2], BigTimes(f[3], 10), BigTimes(f[4], 10), ok),
    f[5]>>

ShortestOf(f, ok) == ShortestFrom(ScaleK(f[1], f[2], f[3], f[4], 0, ok), ok)

\* <<d, n>>: the shortest decimal 0.d * 10^n that reads as x, a number above
\* zero; the ends of the range count when the significand is even
Shortest(x) == ShortestOf(Fraction(x), x[1][1] % 2 = 0)

\* Number.prototype.toString of the number 0.d * 10^n, d being its shortest
\* digits
DecimalToString(d, n) ==
  LET k == Len(d)
      e == n - 1
  IN IF k <= n /\ n <= 21 THEN d \o Zeros(n - k)
     ELSE IF 0 < n /\ n <= 21 THEN SubSeq(d, 1, n) \o "." \o From(d, n + 1)
     ELSE IF -6 < n /\ n <= 0 THEN "0." \o Zeros(0 - n) \o d
     ELSE (IF k = 1 THEN d ELSE Ch(d, 1) \o "." \o From(d, 2))
          \o "e" \o (IF e < 0 THEN "-" \o NatToString(0 - e) ELSE "+" \o NatToString(e))

\* Number.prototype.toString of the number x of 64 bits, negative when neg
Number64ToString(neg, x) ==
  IF x = Zero64 THEN "0"
  ELSE IF x = Infinity64 THEN (IF neg THEN "-Infinity" ELSE "Infinity")
  ELSE (IF neg THEN "-" ELSE "")
       \o DecimalToString(StripTrailingZeros(Shortest(x)[1]), Shortest(x)[2])

\* an exponent is read up to this many digits; a longer one is far outside
\* the range of the numbers either way
MaxExponentDigits == 6

\* the exponent written with the digits e, negative when neg
ExponentOf(neg, e) ==
  LET d == StripLeadingZeros(e)
      n == DigitsValue(IF Len(d) > MaxExponentDigits THEN "1" \o Zeros(MaxExponentDigits) ELSE d, 1, 0)
  IN IF neg THEN 0 - n ELSE n

\* a decimal of at most 15 significant digits between 10^-300 and 10^300 is
\* the shortest decimal of the number it reads as (two such decimals never
\* read as the same number)
EXACT_DIGITS == 15

EXACT_RANGE == 300

\* every decimal from 10^310 on reads as Infinity and every decimal below
\* 10^-330 as zero
FAR_RANGE == 330

\* the number a JSON number stands for, as Number.prototype.toString writes
\* it: int and frac are the digits before and after the point, exp the
\* exponent; the number is 0.d * 10^n
NumberText(neg, int, frac, exp) ==
  LET all == StripLeadingZeros(int \o frac)
      d == StripTrailingZeros(all)
      n == Len(all) - Len(frac) + exp
  IN IF d = "" THEN "0"
     ELSE IF Len(d) <= EXACT_DIGITS /\ n >= 0 - EXACT_RANGE /\ n <= EXACT_RANGE
     THEN (IF neg THEN "-" ELSE "") \o DecimalToString(d, n)
     ELSE IF n > FAR_RANGE THEN (IF neg THEN "-Infinity" ELSE "Infinity")
     ELSE IF n < 0 - FAR_RANGE THEN "0"
     ELSE Number64ToString(neg, ToNumber64(d, n - Len(d)))

(***************************************************************************)
(* JavaScript values and JSON                                              *)
(*                                                                         *)
(* A value is a pair <<tag, payload>>:                                     *)
(*   <<"undefined", 0>>, <<"lit", "null" | "true" | "false">>,             *)
(*   <<"num", text>>, <<"str", string>>, <<"arr", sequence of values>>,     *)
(*   <<"arr", sequence of values, sequence of <<key, value>>>> for an      *)
(*   array that has own properties besides its elements,                   *)
(*   <<"obj", sequence of <<key, value>> in the order of the own keys>>.   *)
(* A number is kept as the text Number.prototype.toString gives for it.    *)
(***************************************************************************)

Undefined == <<"undefined", 0>>

JNull == <<"lit", "null">>

JStr(s) == <<"str", s>>

JArr(elems) == <<"arr", elems>>

JObj(members) == <<"obj", members>>

IsObj(v) == v[1] = "obj"

HasKey(members, k) == \E n \in 1..Len(members) : members[n][1] = k

\* o[k], undefined when o has no own property k
GetMember(members, k) ==
  IF HasKey(members, k)
  THEN members[CHOOSE n \in 1..Len(members) : members[n][1] = k][2]
  ELSE Undefined

RECURSIVE LexLess(_, _, _)
\* a is before b in the order of the dictionary, both read from index i on; a
\* proper prefix is before the longer string
LexLess(a, b, i) ==
  IF i > Len(b) THEN FALSE
  ELSE IF i > Len(a) THEN TRUE
  ELSE IF Ch(a, i) = Ch(b, i) THEN LexLess(a, b, i + 1)
  ELSE CodeOf(Ch(a, i)) < CodeOf(Ch(b, i))

\* the largest array index, 2^32 - 2
MAX_ARRAY_INDEX == "4294967294"

\* k is an array index: the canonical decimal text of an integer from 0 to
\* 2^32 - 2
IsArrayIndex(k) ==
  /\ k # "" /\ \A n \in 1..Len(k) : IsDigit(Ch(k, n))
  /\ Len(k) = 1 \/ Ch(k, 1) # "0"
  /\ Len(k) < Len(MAX_ARRAY_INDEX)
     \/ (Len(k) = Len(MAX_ARRAY_INDEX) /\ ~LexLess(MAX_ARRAY_INDEX, k, 1))

\* the array index a is the smaller number
IndexLess(a, b) == Len(a) < Len(b) \/ (Len(a) = Len(b) /\ LexLess(a, b, 1))

\* o[k] = v: an existing key keeps its place; a new key that is an array index
\* goes among the array indices, which come first in ascending order; any
\* other new key goes last
SetMember(members, k, v) ==
  IF HasKey(members, k)
  THEN [n \in 1..Len(members) |-> IF members[n][1] = k THEN <<k, v>> ELSE members[n]]
  ELSE IF IsArrayIndex(k)
  THEN LET before == Cardinality({n \in 1..Len(members) :
                        IsArrayIndex(members[n][1]) /\ IndexLess(members[n][1], k)})
       IN SubSeq(members, 1, before) \o << <<k, v>> >> \o SubSeq(members, before + 1, Len(members))
  ELSE Append(members, <<k, v>>)

\* the conversion of a value to a boolean
Truthy(v) ==
  CASE v[1] = "undefined" -> FALSE
    [] v[1] = "lit" -> v[2] = "true"
    [] v[1] = "num" -> v[2] \notin {"0", "NaN"}
    [] v[1] = "str" -> v[2] # ""
    [] OTHER -> TRUE

\* typeof v for a primitive v
TypeOf(v) ==
  CASE v[1] = "str" -> "string"
    [] v[1] = "num" -> "number"
    [] v[1] = "lit" -> (IF v = JNull THEN "object" ELSE "boolean")
    [] OTHER -> v[1]

\* the white space of the JSON grammar
IsJsonSpace(c) == c \in {" ", "\n", "\t", "\r"}

RECURSIVE SkipJsonSpace(_, _)
SkipJsonSpace(s, i) == IF IsJsonSpace(Ch(s, i)) THEN SkipJsonSpace(s, i + 1) ELSE i

\* the outcome of a parsing step: whether it succeeded, the value read and the
\* index of the first character after it
Parsed(v, i) == [ok |-> TRUE, v |-> v, i |-> i, err |-> ""]

\* the parser stops at index i: err is the wording the engine has for the
\* place it stopped at, "" when the wording goes by the character at i
ParseFail(err, i) == [ok |-> FALSE, v |-> Undefined, i |-> i, err |-> err]

RECURSIVE SkipDigits(_, _)
SkipDigits(s, i) == IF IsDigit(Ch(s, i)) THEN SkipDigits(s, i + 1) ELSE i

\* a JSON number at index i: -? (0 | [1-9][0-9]*) (. [0-9]+)? ([eE] [+-]? [0-9]+)?
ParseNumber(s, i) ==
  LET a == IF Ch(s, i) = "-" THEN i + 1 ELSE i
      b == IF Ch(s, a) = "0" THEN a + 1 ELSE SkipDigits(s, a)
      c == IF Ch(s, b) = "." THEN SkipDigits(s, b + 1) ELSE b
      e == IF Ch(s, c) \in {"e", "E"}
           THEN (IF Ch(s, c + 1) \in {"+", "-"} THEN c + 2 ELSE c + 1)
           ELSE c
      d == SkipDigits(s, e)
  IN IF Ch(s, a) = "0" /\ IsDigit(Ch(s, a + 1)) THEN ParseFail("", a + 1)
     ELSE IF b = a THEN ParseFail("No number after minus sign in JSON", a)
     ELSE IF Ch(s, b) = "." /\ c = b + 1
     THEN ParseFail("Unterminated fractional number in JSON", b + 1)
     ELSE IF e > c /\ d = e THEN ParseFail("Exponent part is missing a number in JSON", e)
     ELSE Parsed(<<"num", NumberText(Ch(s, i) = "-", SubSeq(s, a, b - 1),
                                     IF c > b THEN SubSeq(s, b + 1, c - 1) ELSE "",
                                     IF e > c THEN ExponentOf(Ch(s, c + 1) = "-", SubSeq(s, e, d - 1))
                                     ELSE 0)>>, d)

\* the character an escape sequence \c stands for, "" when there is none
Unescape(c) ==
  CASE c = "\"" -> "\""
    [] c = "\\" -> "\\"
    [] c = "/" -> "/"
    [] c = "b" -> CodeUnit(8)
    [] c = "n" -> "\n"
    [] c = "t" -> "\t"
    [] c = "r" -> "\r"
    [] c = "f" -> "\f"
    [] OTHER -> ""

\* the first index from i to i + 3 of s that holds no hexadecimal digit, 0
\* when all four do
BadHexAt(s, i) ==
  LET bad == {n \in i..(i + 3) : ~IsHexDigit(Ch(s, n))}
  IN IF bad = {} THEN 0 ELSE CHOOSE n \in bad : \A m \in bad : n <= m

\* c is a character from U+0000 to U+00FF (the end of the text, "", is none)
IsLatin1(c) == c # "" /\ \E n \in 1..Len(LATIN1) : Ch(LATIN1, n) = c

RECURSIVE ScanString(_, _, _)
\* the rest of a JSON string whose opening quote has been read; after a
\* backslash, the end of the text or a character past U+00FF is an unexpected
\* token, any other character that starts no escape a bad escaped character
ScanString(s, i, acc) ==
  LET c == Ch(s, i)
  IN IF c = "" THEN ParseFail("Unterminated string in JSON", i)
     ELSE IF IsControl(c) THEN ParseFail("Bad control character in string literal in JSON", i)
     ELSE IF c = "\"" THEN Parsed(acc, i + 1)
     ELSE IF c = "\\"
          THEN (IF Ch(s, i + 1) = "u"
                THEN (IF BadHexAt(s, i + 2) # 0
                      THEN ParseFail("Bad Unicode escape in JSON", BadHexAt(s, i + 2))
                      ELSE ScanString(s, i + 6,
                                      acc \o CodeUnit(HexDigitsValue(SubSeq(s, i + 2, i + 5), 1, 0))))
                ELSE IF ~IsLatin1(Ch(s, i + 1)) THEN ParseFail("", i + 1)
                ELSE IF Unescape(Ch(s, i + 1)) = ""
                THEN ParseFail("Bad escaped character in JSON", i + 1)
                ELSE ScanString(s, i + 2, acc \o Unescape(Ch(s, i + 1))))
     ELSE ScanString(s, i + 1, acc \o c)

\* the literal word at index i of s, whose first character has been seen
\* there: the value v, or a stop at the first character that differs
ScanLiteral(s, i, word, v) ==
  IF StartsAt(s, word, i) THEN Parsed(v, i + Len(word))
  ELSE LET off == {k \in 1..(Len(word) - 1) : Ch(s, i + k) # Ch(word, k + 1)}
       IN ParseFail("", i + (CHOOSE k \in off : \A m \in off : k <= m))

RECURSIVE ParseValue(_, _)
RECURSIVE ParseElements(_, _, _)
RECURSIVE ParseMembers(_, _, _, _)

\* the elements of an array after its "[" (or after a ","), acc read so far
ParseElements(s, i, acc) ==
  LET e == ParseValue(s, i)
      j == SkipJsonSpace(s, e.i)
  IN IF ~e.ok THEN e
     ELSE IF Ch(s, j) = "," THEN ParseElements(s, j + 1, Append(acc, e.v))
     ELSE IF Ch(s, j) = "]" THEN Parsed(JArr(Append(acc, e.v)), j + 1)
     ELSE ParseFail("Expected ',' or ']' after array element in JSON", j)

\* the members of an object after its "{" (first is TRUE) or after a ","
\* (first is FALSE), acc read so far; the first member has its own wordings
\* for a missing property name and a missing ":", a later member has one for
\* the missing name only
ParseMembers(s, i, acc, first) ==
  LET k == SkipJsonSpace(s, i)
      key == IF Ch(s, k) = "\"" THEN ScanString(s, k + 1, "")
             ELSE ParseFail(IF first THEN "Expected property name or '}' in JSON"
                            ELSE "Expected double-quoted property name in JSON", k)
      c == SkipJsonSpace(s, key.i)
      val == IF ~key.ok THEN key
             ELSE IF Ch(s, c) = ":" THEN ParseValue(s, c + 1)
             ELSE ParseFail(IF first THEN "Expected ':' after property name in JSON" ELSE "", c)
      j == SkipJsonSpace(s, val.i)
  IN IF ~val.ok THEN val
     ELSE IF Ch(s, j) = ","
     THEN ParseMembers(s, j + 1, SetMember(acc, key.v, val.v), FALSE)
     ELSE IF Ch(s, j) = "}" THEN Parsed(JObj(SetMember(acc, key.v, val.v)), j + 1)
     ELSE ParseFail("Expected ',' or '}' after property value in JSON", j)

\* a JSON value at index i, after optional white space
ParseValue(s, i) ==
  LET j == SkipJsonSpace(s, i)
      c == Ch(s, j)
  IN CASE c = "{" ->
            (IF Ch(s, SkipJsonSpace(s, j + 1)) = "}"
             THEN Parsed(JObj(<<>>), SkipJsonSpace(s, j + 1) + 1)
             ELSE ParseMembers(s, j + 1, <<>>, TRUE))
       [] c = "[" ->
            (IF Ch(s, SkipJsonSpace(s, j + 1)) = "]"
             THEN Parsed(JArr(<<>>), SkipJsonSpace(s, j + 1) + 1)
             ELSE ParseElements(s, j + 1, <<>>))
       [] c = "\"" ->
            (LET r == ScanString(s, j + 1, "")
             IN IF r.ok THEN Parsed(JStr(r.v), r.i) ELSE r)
       [] c = "t" -> ScanLiteral(s, j, "true", <<"lit", "true">>)
       [] c = "f" -> ScanLiteral(s, j, "false", <<"lit", "false">>)
       [] c = "n" -> ScanLiteral(s, j, "null", JNull)
       [] c = "-" \/ IsDigit(c) -> ParseNumber(s, j)
       [] OTHER -> ParseFail("", j)

\* the texts whose SyntaxError quotes the whole text
SPECIAL_TEXTS == {"NaN", "Infinity", "undefined", "[object Object]"}

\* the number of characters of the text quoted on each side of the place
MAX_CONTEXT == 10

\* the text quoted in the message for a stop at index i
ContextOf(text, i) ==
  IF Len(text) < 2 * MAX_CONTEXT + 1 THEN "\"" \o text \o "\""
  ELSE IF i - 1 < MAX_CONTEXT THEN "\"" \o SubSeq(text, 1, i - 1 + MAX_CONTEXT) \o "\"..."
  ELSE IF i - 1 < Len(text) - MAX_CONTEXT
       THEN "...\"" \o SubSeq(text, i - MAX_CONTEXT, i - 1 + MAX_CONTEXT) \o "\"..."
  ELSE "...\"" \o SubSeq(text, i - MAX_CONTEXT, Len(text)) \o "\""

\* the message of the SyntaxError of JSON.parse(text) for a stop at index i
\* with the wording err (the wordings are those of the engine V8 of Node 20;
\* a position is counted from 0)
JsonErrorMessage(text, err, i) ==
  LET c == Ch(text, i)
      at == " at position " \o NatToString(i - 1)
  IN IF err # "" THEN err \o at
     ELSE IF c = "" THEN "Unexpected end of JSON input"
     ELSE IF c = "-" \/ IsDigit(c) THEN "Unexpected number in JSON" \o at
     ELSE IF c = "\"" THEN "Unexpected string in JSON" \o at
     ELSE IF text \in SPECIAL_TEXTS THEN "\"" \o text \o "\" is not valid JSON"
     ELSE "Unexpected token '" \o c \o "', " \o ContextOf(text, i) \o " is not valid JSON"

\* the outcome of JSON.parse(text), r being the outcome for its first value:
\* anything but white space after the value is an error
WholeText(text, r, end) ==
  IF ~r.ok THEN ParseFail(JsonErrorMessage(text, r.err, r.i), r.i)
  ELSE IF end # Len(text) + 1
  THEN ParseFail(JsonErrorMessage(text, "Unexpected non-whitespace character after JSON", end), end)
  ELSE r

\* JSON.parse(text): ok is FALSE where JSON.parse throws a SyntaxError, whose
\* message is then err
JsonParse(text) ==
  LET r == ParseValue(text, 1)
  IN WholeText(text, r, IF r.ok THEN SkipJsonSpace(text, r.i) ELSE 0)

\* the four hexadecimal digits of the escape of a control character
HexOfControl(c) ==
  LET n == CodeOf(c)
      hex == Digits \o HexLower
  IN "00" \o hex[(n \div 16) + 1] \o hex[(n % 16) + 1]

RECURSIVE Quote(_, _)
\* the characters of s from the i-th on as JSON.stringify writes them between
\* quotes
Quote(s, i) ==
  IF i > Len(s) THEN ""
  ELSE LET c == Ch(s, i)
           q == CASE c = "\"" -> "\\\""
                  [] c = "\\" -> "\\\\"
                  [] c = "\n" -> "\\n"
                  [] c = "\t" -> "\\t"
                  [] c = "\r" -> "\\r"
                  [] c = "\f" -> "\\f"
                  [] c = CodeUnit(8) -> "\\b"
                  [] OTHER -> IF IsControl(c) THEN "\\u" \o HexOfControl(c) ELSE c
       IN q \o Quote(s, i + 1)

RECURSIVE JsonStringify(_)
RECURSIVE StringifyElements(_)
RECURSIVE StringifyMembers(_, _)

\* the elements of an array, comma-separated; undefined is written null
StringifyElements(elems) ==
  IF Len(elems) = 0 THEN ""
  ELSE (IF elems[1] = Undefined THEN "null" ELSE JsonStringify(elems[1]))
       \o (IF Len(elems) = 1 THEN "" ELSE "," \o StringifyElements(Tail(elems)))

\* the members of an object, comma-separated; an undefined member is left out
StringifyMembers(members, first) ==
  IF Len(members) = 0 THEN ""
  ELSE IF members[1][2] = Undefined THEN StringifyMembers(Tail(members), first)
  ELSE (IF first THEN "" ELSE ",")
       \o "\"" \o Quote(members[1][1], 1) \o "\":" \o JsonStringify(members[1][2])
       \o StringifyMembers(Tail(members), FALSE)

\* JSON.stringify(v) of a defined value; a number that is not finite is
\* written null
JsonStringify(v) ==
  CASE v[1] = "obj" -> "{" \o StringifyMembers(v[2], TRUE) \o "}"
    [] v[1] = "arr" -> "[" \o StringifyElements(v[2]) \o "]"
    [] v[1] = "str" -> "\"" \o Quote(v[2], 1) \o "\""
    [] v[1] = "num" -> (IF v[2] \in {"Infinity", "-Infinity", "NaN"} THEN "null" ELSE v[2])
    [] OTHER -> v[2]

(***************************************************************************)
(* cleanJson                                                               *)
(***************************************************************************)

\* the code fence of markdown: three grave accents
FENCE3 == "ˋˋˋ"

FirstAfter(text, close, i) ==
  LET js == {j \in (i + 1)..Len(text) : Ch(text, j) = close}
  IN IF js = {} THEN 0 ELSE CHOOSE j \in js : \A k \in js : j <= k

\* the last index j > i of text holding the character close, 0 when none
LastAfter(text, close, i) ==
  LET js == {j \in (i + 1)..Len(text) : Ch(text, j) = close}
  IN IF js = {} THEN 0 ELSE CHOOSE j \in js : \A k \in js : k <= j

\* where /(\{[\s\S]*\}|\[[\s\S]*\])/ matches when tried at index i: the index of
\* the last character of the match (the quantifier is greedy), 0 when it fails
MatchEndAt(text, i) ==
  CASE Ch(text, i) = "{" -> LastAfter(text, "}", i)
    [] Ch(text, i) = "[" -> LastAfter(text, "]", i)
    [] OTHER -> 0

\* text.match(/(\{[\s\S]*\}|\[[\s\S]*\])/): the leftmost match, as <<first, last>>,
\* <<0, 0>> for null
JsonMatch(text) ==
  LET starts == {i \in 1..Len(text) : MatchEndAt(text, i) # 0}
  IN IF starts = {} THEN <<0, 0>>
     ELSE LET i == CHOOSE a \in starts : \A b \in starts : a <= b
          IN <<i, MatchEndAt(text, i)>>

RECURSIVE TrimEnd(_)
TrimEnd(s) == IF s # "" /\ IsSpace(Ch(s, Len(s))) THEN TrimEnd(SubSeq(s, 1, Len(s) - 1)) ELSE s

\* String.prototype.trim
Trim(s) == TrimEnd(From(s, SkipSpace(s, 1)))

StripPrefixOnly(s, prefix) == IF StartsAt(s, prefix, 1) THEN From(s, Len(prefix) + 1) ELSE s

\* s.replace(/^<prefix>\s*/, ''): a leading prefix and the white space after it
StripPrefixAndSpace(s, prefix) ==
  IF StartsAt(s, prefix, 1) THEN From(s, SkipSpace(s, Len(prefix) + 1)) ELSE s

\* s.replace(/\s*<suffix>$/, ''): a trailing suffix and the white space before it
StripSpaceAndSuffix(s, suffix) ==
  IF Len(s) >= Len(suffix) /\ StartsAt(s, suffix, Len(s) - Len(suffix) + 1)
  THEN TrimEnd(SubSeq(s, 1, Len(s) - Len(suffix)))
  ELSE s

\* the fallback of cleanJson
BasicCleanup(text) ==
  StripSpaceAndSuffix(
    StripPrefixAndSpace(StripPrefixAndSpace(Trim(text), FENCE3 \o "json"), FENCE3),
    FENCE3)

cleanJson(text) ==
  LET match == JsonMatch(text)
  IN IF match # <<0, 0>> THEN SubSeq(text, match[1], match[2]) ELSE BasicCleanup(text)

(***************************************************************************)
(* The candidate list and getSmartConfig                                   *)
(***************************************************************************)

MODELS ==
  << "gemini-flash-lite-latest",
     "gemini-2.5-flash-lite-preview-09-2025",
     "gemini-2.0-flash-lite-preview-02-05",
     "gemini-2.0-flash",
     "gemini-flash-latest",
     "gemini-pro-latest",
     "gemini-exp-1206",
     "gemini-3-flash-preview",
     "gemini-3-pro-preview",
     "gemini-1.5-flash",
     "gemini-1.5-pro" >>

EXPLAINER_SYSTEM_INSTRUCTION ==
  "You are a premium Indian stock market explanation engine.\n"
  \o "Your role is to explain WHY a stock or index moved on a given trading day.\n"
  \o "- India only (NSE/BSE).\n"
  \o "- NO predictions, NO advice, NO target prices.\n"
  \o "- Be factual, neutral, and unemotional. No hype, no fear.\n"
  \o "- HOLIDAY & SESSION RULES:\n"
  \o "  1. Determine if the market is closed (Weekend or NSE/BSE Holiday).\n"
  \o "  2. If closed, clearly state it and STOP analysis.\n"
  \o "- ANALYSIS LOGIC:\n"
  \o "  - Consider NIFTY 50/Sector context, News, Volume, and Sentiment.\n"
  \o "  - If no strong reason exists, state it is sentiment-driven or index-linked. Do NOT speculate.\n"
  \o "- IMPACT CLASSIFICATION: No Impact, Low Impact, Medium Impact, High Impact.\n"
  \o "- SENTIMENT CLASSIFICATION: Positive, Negative, Neutral.\n"
  \o "- PREMIUM INSIGHT: Provide a 'premiumInsight' string that gives a deeper look into FII/DII flow or order book data if available."

REBALANCER_SYSTEM_INSTRUCTION ==
  "You are an educational portfolio rebalancing assistant for Indian stock market investors only.\n"
  \o "STRICT RULES:\n"
  \o "- NO price predictions or market direction forecasts.\n"
  \o "- NO guaranteed returns.\n"
  \o "- NO aggressive buy/sell instructions.\n"
  \o "- Provide logical, risk-based rebalancing suggestions only.\n"
  \o "- Prioritize capital protection and diversification principles.\n"
  \o "- Conservative, factual, and unemotional tone.\n"
  \o "- Context: Indian market (NSE/BSE)."

\* the directive getSmartConfig appends for a lite model
LITE_DIRECTIVE ==
  "\n\nCRITICAL: Output strictly valid JSON only. Do not wrap in markdown. Do not include any text before or after."

\* tools: [{ googleSearch: {} }]
SEARCH_TOOLS == JArr(<< JObj(<< <<"googleSearch", JObj(<<>>)>> >>) >>)

isLiteDelimited(model) == Includes(model, "-lite-")

\* model.includes('lite')
isLite(model) == Includes(model, "lite")

getSmartConfig(model, schema, systemInstruction) ==
  LET baseConfig ==
        << <<"systemInstruction",
             JStr(IF isLite(model) THEN systemInstruction \o LITE_DIRECTIVE
                  ELSE systemInstruction)>>,
           <<"tools", SEARCH_TOOLS>> >>
  IN IF ~isLite(model)
     THEN JObj(SetMember(SetMember(baseConfig, "responseMimeType", JStr("application/json")),
                         "responseSchema", schema))
     ELSE JObj(baseConfig)

(***************************************************************************)
(* The request function of checkMarketStatus                               *)
(***************************************************************************)

LOWER == <<"a", "b", "c", "d", "e", "f", "g", "h", "i", "j", "k", "l", "m", "n", "o", "p", "q", "r", "s", "t", "u", "v", "w", "x", "y", "z">>

UPPER == <<"A", "B", "C", "D", "E", "F", "G", "H", "I", "J", "K", "L", "M", "N", "O", "P", "Q", "R", "S", "T", "U", "V", "W", "X", "Y", "Z">>

LowerLetters == {"a", "b", "c", "d", "e", "f", "g", "h", "i", "j", "k", "l", "m", "n", "o", "p", "q", "r", "s", "t", "u", "v", "w", "x", "y", "z"}

\* the form the flag i compares a character by: a letter of the patterns of
\* the module (they hold letters A to Z only) matches its two cases and no
\* other character
UpperCh(c) == IF c \in LowerLetters THEN UPPER[CHOOSE n \in 1..Len(LOWER) : LOWER[n] = c] ELSE c

RECURSIVE Canonicalize(_, _)
\* s from its i-th character on, each character in the form the flag i
\* compares it by
Canonicalize(s, i) == IF i > Len(s) THEN "" ELSE UpperCh(Ch(s, i)) \o Canonicalize(s, i + 1)

\* the code units of the small letters of LATIN1 past the letters a to z whose
\* capital is 32 code units below: U+00E0 to U+00FE but the division sign
SMALL_LATIN1 == (224..254) \ {247}

SMALL_LETTERS == {CodeUnit(n) : n \in SMALL_LATIN1}

\* String.prototype.toUpperCase of one character: the sharp s becomes SS, the
\* capital of the micro sign is U+039C (code unit 924) and the capital of the
\* y with diaeresis is U+0178 (code unit 376)
UpperOf(c) ==
  IF c \in LowerLetters THEN UpperCh(c)
  ELSE IF c \in SMALL_LETTERS THEN CodeUnit(CodeOf(c) - 32)
  ELSE IF c = CodeUnit(223) THEN "SS"
  ELSE IF c = CodeUnit(181) THEN CodeUnit(924)
  ELSE IF c = CodeUnit(255) THEN CodeUnit(376)
  ELSE c

RECURSIVE UpperFrom(_, _)
\* the upper-case form of s from its i-th character on
UpperFrom(s, i) == IF i > Len(s) THEN "" ELSE UpperOf(Ch(s, i)) \o UpperFrom(s, i + 1)

toUpperCase(s) == UpperFrom(s, 1)

STATUS_WORDS == <<"OPEN", "CLOSED", "UNKNOWN">>

\* /STATUS:\s*(OPEN|CLOSED|UNKNOWN)/i tried at index i of a text whose
\* form under the flag i is up:
\* <<first, last>> of the captured group, <<0, 0>> when there is no match at i
StatusMatchAt(up, i) ==
  LET j == SkipSpace(up, i + Len("STATUS:"))
      ws == {n \in 1..Len(STATUS_WORDS) : StartsAt(up, STATUS_WORDS[n], j)}
  IN IF StartsAt(up, "STATUS:", i) /\ ws # {}
     THEN <<j, j + Len(STATUS_WORDS[CHOOSE n \in ws : \A m \in ws : n <= m]) - 1>>
     ELSE <<0, 0>>

\* text.match(/STATUS:\s*(OPEN|CLOSED|UNKNOWN)/i): group 1 of the leftmost
\* match, "" for null
statusMatch(text) ==
  LET up == Canonicalize(text, 1)
      at == {i \in 1..Len(text) : StatusMatchAt(up, i) # <<0, 0>>}
      m == StatusMatchAt(up, CHOOSE i \in at : \A k \in at : i <= k)
  IN IF at = {} THEN "" ELSE SubSeq(text, m[1], m[2])

RECURSIVE LineEnd(_, _)
\* the index after the last character of the line that index i is in (the
\* class . matches no line terminator)
LineEnd(text, i) ==
  IF i > Len(text) \/ Ch(text, i) \in {"\n", "\r"} THEN i ELSE LineEnd(text, i + 1)

\* text.match(/REASON:\s*(.*)/i): <<matched, group 1>> of the leftmost match
reasonMatch(text) ==
  LET up == Canonicalize(text, 1)
      at == {i \in 1..Len(text) : StartsAt(up, "REASON:", i)}
      i == CHOOSE a \in at : \A b \in at : a <= b
      j == SkipSpace(text, i + Len("REASON:"))
  IN IF at = {} THEN <<FALSE, "">> ELSE <<TRUE, SubSeq(text, j, LineEnd(text, j) - 1)>>

MarketStatusRaw(responseText) ==
  LET text == IF responseText[1] = "str" THEN responseText[2] ELSE ""
      sm == statusMatch(text)
      rm == reasonMatch(text)
  IN JObj(<< <<"status", JStr(sm)>>,
             <<"reason", JStr(IF rm[1] THEN Trim(rm[2]) ELSE "Requires verification")>> >>)

\* the object the request function of checkMarketStatus returns for a
\* response; responseText is the value of response.text
MarketStatusOf(responseText) ==
  LET text == IF responseText[1] = "str" THEN responseText[2] ELSE ""
      sm == statusMatch(text)
      rm == reasonMatch(text)
  IN JObj(<< <<"status", JStr(IF sm # "" THEN toUpperCase(sm) ELSE "UNKNOWN")>>,
             <<"reason", JStr(IF rm[1] THEN Trim(rm[2]) ELSE "Requires verification")>> >>)

(***************************************************************************)
(* The request functions of the use cases                                  *)
(*                                                                         *)
(* The generative-language API settles a request either by rejecting it    *)
(* with an error message or by a response: the value of response.text and  *)
(* the grounding chunks of its first candidate.                            *)
(***************************************************************************)

Rejected(message) == [kind |-> "reject", message |-> message, text |-> Undefined, chunks |-> <<>>]

Responded(text, chunks) == [kind |-> "respond", message |-> "", text |-> text, chunks |-> chunks]

\* no settlement of a request is waiting for its request function
NoResponse == [kind |-> "none", message |-> "", text |-> Undefined, chunks |-> <<>>]

\* what an invocation of a request function ends with: a returned value, or a
\* thrown error with its class name and message
Fulfilled(v) == [ok |-> TRUE, value |-> v, name |-> "", message |-> ""]

Threw(name, message) == [ok |-> FALSE, value |-> Undefined, name |-> name, message |-> message]

\* no invocation of the request function has ended
NoResult == [ok |-> FALSE, value |-> Undefined, name |-> "", message |-> ""]

\* the message of the TypeError of text.match on an undefined text
NO_TEXT_MESSAGE == "Cannot read properties of undefined (reading 'match')"

\* the message of the TypeError of text.match on a text that is no string
NoMatchMessage(text) ==
  IF text = Undefined THEN NO_TEXT_MESSAGE
  ELSE IF text = JNull THEN "Cannot read properties of null (reading 'match')"
  ELSE "text.match is not a function"

\* the message of the ReferenceError of reading the undeclared name schema
NO_SCHEMA_MESSAGE == "schema is not defined"

\* what JSON.parse ends with, r being the outcome of the parsing: the value, or
\* the SyntaxError it throws
ParseOutcome(r) == IF r.ok THEN Fulfilled(r.v) ELSE Threw("SyntaxError", r.err)

\* JSON.parse(cleanJson(response.text))
ParseResponse(responseText) ==
  IF responseText[1] # "str" THEN Threw("TypeError", NoMatchMessage(responseText))
  ELSE ParseOutcome(JsonParse(cleanJson(responseText[2])))

\* the own properties of an array besides its elements
ArrayProps(v) == IF Len(v) = 3 THEN v[3] ELSE <<>>

\* v[k] for a value v that is neither undefined nor null and a key k among
\* those the module reads (web, title, uri, stockA, stockB): an object or an
\* array has the own property or none, any other value has none
GetProp(v, k) ==
  CASE IsObj(v) -> GetMember(v[2], k)
    [] v[1] = "arr" -> GetMember(ArrayProps(v), k)
    [] OTHER -> Undefined

\* a property read on v throws
NoProps(v) == v = Undefined \/ v = JNull

\* chunk.web is truthy
HasWeb(chunk) == Truthy(GetProp(chunk, "web"))

\* { title: chunk.web.title || 'Source', uri: chunk.web.uri }
SourceOf(chunk) ==
  LET title == GetProp(GetProp(chunk, "web"), "title")
  IN JObj(<< <<"title", IF Truthy(title) THEN title ELSE JStr("Source")>>,
             <<"uri", GetProp(GetProp(chunk, "web"), "uri")>> >>)

RECURSIVE SourcesOf(_)
\* groundingChunks.filter(chunk => chunk.web).map(...)
SourcesOf(chunks) ==
  IF Len(chunks) = 0 THEN <<>>
  ELSE (IF HasWeb(chunks[1]) THEN <<SourceOf(chunks[1])>> ELSE <<>>) \o SourcesOf(Tail(chunks))

\* the message of the TypeError of chunk.web for the first chunk that is
\* undefined or null
NoChunkMessage(chunks) ==
  LET bad == {n \in 1..Len(chunks) : NoProps(chunks[n])}
      first == chunks[CHOOSE n \in bad : \A m \in bad : n <= m]
  IN "Cannot read properties of " \o (IF first = JNull THEN "null" ELSE "undefined")
       \o " (reading 'web')"

\* the request function of checkMarketStatus, from the response on: text is
\* response.text || '', and text.match throws when that is no string
MarketStatusResponse(responseText) ==
  IF Truthy(responseText) /\ responseText[1] # "str"
  THEN Threw("TypeError", NoMatchMessage(responseText))
  ELSE Fulfilled(MarketStatusOf(responseText))

\* the own enumerable properties the spread { ...data } copies
SpreadOf(data) ==
  CASE data[1] = "obj" -> data[2]
    [] data[1] = "arr" -> [n \in 1..Len(data[2]) |-> <<NatToString(n - 1), data[2][n]>>]
                            \o ArrayProps(data)
    [] data[1] = "str" -> [n \in 1..Len(data[2]) |-> <<NatToString(n - 1), JStr(Ch(data[2], n))>>]
    [] OTHER -> <<>>

\* return { ...data, sources }, data being what JSON.parse ended with
WithSources(data, chunks) ==
  IF ~data.ok THEN data
  ELSE IF \E n \in 1..Len(chunks) : NoProps(chunks[n])
  THEN Threw("TypeError", NoChunkMessage(chunks))
  ELSE Fulfilled(JObj(SetMember(SpreadOf(data.value), "sources", JArr(SourcesOf(chunks)))))

\* the request function of fetchStockExplanation, from the response on
StockExplanationOf(response) == WithSources(ParseResponse(response.text), response.chunks)

\* data[key].sources = []: the object with the property set, or the TypeError
\* of a property access on undefined or null or (the module is strict code) of
\* a property creation on a primitive; an array takes the property as an
\* object does
SetSources(data, key) ==
  IF data = JNull
  THEN Threw("TypeError", "Cannot read properties of null (reading '" \o key \o "')")
  ELSE LET target == GetProp(data, key)
       IN CASE target[1] = "obj" ->
                 Fulfilled(JObj(SetMember(data[2], key, JObj(SetMember(target[2], "sources", JArr(<<>>))))))
            [] target[1] = "arr" ->
                 Fulfilled(JObj(SetMember(data[2], key,
                     <<"arr", target[2], SetMember(ArrayProps(target), "sources", JArr(<<>>))>>)))
            [] target = Undefined ->
                 Threw("TypeError", "Cannot set properties of undefined (setting 'sources')")
            [] target = JNull ->
                 Threw("TypeError", "Cannot set properties of null (setting 'sources')")
            [] OTHER -> Threw("TypeError", "Cannot create property 'sources' on "
                                             \o TypeOf(target) \o " '" \o target[2] \o "'")

\* the statement data[key].sources = [] after the statements that ended with
\* prev: it does not run when one of them threw
ThenSetSources(prev, key) == IF ~prev.ok THEN prev ELSE SetSources(prev.value, key)

\* the request function of fetchComparison, from the response on
ComparisonOf(response) ==
  ThenSetSources(ThenSetSources(ParseResponse(response.text), "stockA"), "stockB")

Fns ==
  { "checkMarketStatus", "fetchYesterdayPulse", "fetchStockExplanation", "fetchComparison",
    "fetchDiscoverySuggestions", "fetchRebalancingSuggestions" }

\* the use cases whose request function reaches ai.models.generateContent
Requesting(f) == f # "fetchYesterdayPulse"

\* what an invocation of the request function of use case f has ended with
\* when it gives its promise back: nothing while its request is in flight, the
\* ReferenceError of fetchYesterdayPulse, which makes no request
Invoked(f) == IF Requesting(f) THEN NoResult ELSE Threw("ReferenceError", NO_SCHEMA_MESSAGE)

\* what the request function of use case f ends with when it is resumed, the
\* API having settled its request with env; fetchYesterdayPulse reads the undeclared name schema
\* while it builds the request, so it throws before any request is made
generateFn(f, env) ==
  IF ~Requesting(f) THEN Invoked(f)
  ELSE IF env.kind = "reject" THEN Threw("Error", env.message)
  ELSE CASE f = "checkMarketStatus" -> MarketStatusResponse(env.text)
         [] f = "fetchStockExplanation" -> StockExplanationOf(env)
         [] f = "fetchComparison" -> ComparisonOf(env)
         [] OTHER -> ParseResponse(env.text)

(***************************************************************************)
(* State                                                                   *)
(***************************************************************************)

\* the number of concurrent callers of the use-case functions
NumCallers == 2

Callers == 1..NumCallers

CACHE_KEY == "wdim_market_status_cache"

CACHE_TIME_KEY == "wdim_market_status_time"

CACHE_DURATION == 30 * 60 * 1000

VARIABLES
  clock,      \* Date.now(), in milliseconds
  storage,    \* sessionStorage: key -> [present, value]; getItem gives null when absent
  requests,   \* the generateContent requests in flight: [caller, model]
  pc,         \* per caller: "idle", "awaiting" (its call is pending: the promise
              \* the use case gave is not settled), "returned" or "threw"
  fn,         \* per caller: the use case of its current or last call
  now,        \* per caller: the clock value checkMarketStatus read on entry
  idx,        \* per caller: the index in MODELS of the candidate being tried
  errors,     \* per caller: the array errors of generateWithFallback
  response,   \* per caller: what the API has settled its request with, the
              \* request function still to be resumed; NoResponse otherwise
  result,     \* per caller: what the request function it is suspended on has
              \* ended with, generateWithFallback still to be resumed; NoResult
              \* otherwise
  ended,      \* per caller: what generateWithFallback has ended with, the use
              \* case still to be resumed; NoResult otherwise
  trace,      \* per caller: the candidates tried and how each ended, in order
              \* (the console output of generateWithFallback)
  outcome,    \* per caller: how its last call ended
  calls,      \* per caller: the number of use-case calls it has made
  issued,     \* per caller: the number of requests its current call has made
  writer,     \* who set the status entry of the storage last: a caller, 0 for
              \* nobody or for another script of the page
  ticks,      \* the number of clock steps taken so far
  dateStr,    \* per caller: the argument dateStr of its current or last call, ""
              \* when the use case called has none
  input,      \* the arguments of the helper function under study, <<>> when none
  output      \* what the helper returned for them, <<>> before it has

\* the state of the helper functions studied on their own
helper == <<input, output>>

vars == <<clock, storage, requests, pc, fn, now, idx, errors, response, result, ended, trace, outcome,
          calls, issued, writer, ticks, dateStr, input, output>>

\* sessionStorage.getItem(key) === null
Absent == [present |-> FALSE, value |-> ""]

\* the entry sessionStorage.setItem(key, value) leaves
Stored(value) == [present |-> TRUE, value |-> value]

NoOutcome == [kind |-> "none", value |-> Undefined, name |-> "", message |-> ""]

Returned(v) == [kind |-> "return", value |-> v, name |-> "", message |-> ""]

Thrown(name, message) == [kind |-> "throw", value |-> Undefined, name |-> name, message |-> message]

\* the entries of a trace: the candidate is tried, its attempt threw the error
\* of that class and message, its attempt returned that value
Tried(model) == [ev |-> "try", model |-> model, name |-> "", message |-> "", value |-> Undefined]

Failed(model, name, message) ==
  [ev |-> "fail", model |-> model, name |-> name, message |-> message, value |-> Undefined]

Succeeded(model, v) == [ev |-> "ok", model |-> model, name |-> "", message |-> "", value |-> v]

\* the instant the session starts at
StartTime == 1000000

\* the state of a session that starts: nothing stored, nobody calling
SessionStart ==
  /\ clock = StartTime
  /\ storage = [k \in {CACHE_KEY, CACHE_TIME_KEY} |-> Absent]
  /\ requests = {}
  /\ pc = [c \in Callers |-> "idle"]
  /\ fn = [c \in Callers |-> "none"]
  /\ now = [c \in Callers |-> 0]
  /\ idx = [c \in Callers |-> 0]
  /\ errors = [c \in Callers |-> <<>>]
  /\ response = [c \in Callers |-> NoResponse]
  /\ result = [c \in Callers |-> NoResult]
  /\ ended = [c \in Callers |-> NoResult]
  /\ trace = [c \in Callers |-> <<>>]
  /\ outcome = [c \in Callers |-> NoOutcome]
  /\ calls = [c \in Callers |-> 0]
  /\ issued = [c \in Callers |-> 0]
  /\ writer = 0
  /\ ticks = 0
  /\ dateStr = [c \in Callers |-> ""]

session == <<clock, storage, requests, pc, fn, now, idx, errors, response, result, ended, trace,
             outcome, calls, issued, writer, ticks, dateStr>>

Init == SessionStart /\ input = <<>> /\ output = <<>>

(***************************************************************************)
(* generateWithFallback                                                    *)
(***************************************************************************)

\* the line recorded for a candidate that failed
FailureLine(model, message) == "Model " \o model \o " failed: " \o message

AggregateLastOnly(errs) == "All models failed. Details:\n" \o errs[Len(errs)]

\* the message of the error thrown once every candidate has failed
AggregateMessage(errs) == "All models failed. Details:\n" \o join(errs, "\n")

SkipCandidate(k) == k + 2

RetryCandidate(k) == k

\* the position of the candidate the loop tries after the k-th
NextCandidate(k) == k + 1

IssuedAhead(k) == {MODELS[j] : j \in {k, k + 1} \cap (1..Len(MODELS))}

\* the candidates whose request is made when the loop reaches the k-th: the
\* loop awaits each attempt before the next
IssuedAt(k) == {MODELS[k]}

\* the requests of caller c that are in flight
InFlight(c) == {r \in requests : r.caller = c}

\* the loop of generateWithFallback reaches the k-th candidate for caller c
\* running use case f: "Trying model" is logged and generateFn is invoked,
\* which makes its request before it is suspended; reqs, tr and n are the
\* requests in flight, the trace of c and the number of requests of this call
\* of c before that
TryCandidate(c, f, k, reqs, tr, n) ==
  /\ idx' = [idx EXCEPT ![c] = k]
  /\ result' = [result EXCEPT ![c] = Invoked(f)]
  /\ trace' = [trace EXCEPT ![c] = Append(tr, Tried(MODELS[k]))]
  /\ requests' =
       reqs \cup (IF Requesting(f) THEN {[caller |-> c, model |-> m] : m \in IssuedAt(k)} ELSE {})
  /\ issued' = [issued EXCEPT ![c] = n + (IF Requesting(f) THEN Cardinality(IssuedAt(k)) ELSE 0)]

(***************************************************************************)
(* checkMarketStatus and the other use cases                               *)
(***************************************************************************)

IsFreshInclusive(t, cachedTime) ==
  parseInt(cachedTime) # NaN /\ (t - parseInt(cachedTime)) <= CACHE_DURATION

IsFreshSeconds(t, cachedTime) ==
  parseInt(cachedTime) # NaN /\ (t - parseInt(cachedTime)) < 30 * 60

\* (now - parseInt(cachedTime)) < CACHE_DURATION; a comparison with NaN is false
IsFresh(t, cachedTime) ==
  parseInt(cachedTime) # NaN /\ (t - parseInt(cachedTime)) < CACHE_DURATION

\* cachedStatus && cachedTime && (now - parseInt(cachedTime)) < CACHE_DURATION:
\* null and the empty string are falsy
CacheUsable(t) ==
  /\ storage[CACHE_KEY].present /\ storage[CACHE_KEY].value # ""
  /\ storage[CACHE_TIME_KEY].present /\ storage[CACHE_TIME_KEY].value # ""
  /\ IsFresh(t, storage[CACHE_TIME_KEY].value)

CacheHitUnguarded(t) == CacheUsable(t)

\* the cache answers the call: the condition holds and JSON.parse does not throw
CacheHit(t) == CacheUsable(t) /\ JsonParse(storage[CACHE_KEY].value).ok

\* the number of calls each caller may make
MaxCalls == 2

CallKeyed(c, f, d) ==
  /\ pc[c] # "awaiting"
  /\ calls[c] < MaxCalls
  /\ calls' = [calls EXCEPT ![c] = @ + 1]
  /\ fn' = [fn EXCEPT ![c] = f]
  /\ dateStr' = [dateStr EXCEPT ![c] = IF f = "checkMarketStatus" THEN d ELSE ""]
  /\ errors' = [errors EXCEPT ![c] = <<>>]
  /\ now' = [now EXCEPT ![c] = IF f = "checkMarketStatus" THEN clock ELSE @]
  /\ IF f = "checkMarketStatus" /\ CacheHit(clock) /\ Includes(storage[CACHE_KEY].value, d)
     THEN /\ pc' = [pc EXCEPT ![c] = "returned"]
          /\ outcome' = [outcome EXCEPT ![c] = Returned(JsonParse(storage[CACHE_KEY].value).v)]
          /\ trace' = [trace EXCEPT ![c] = <<>>]
          /\ idx' = [idx EXCEPT ![c] = 0]
          /\ issued' = [issued EXCEPT ![c] = 0]
          /\ UNCHANGED <<requests, result>>
     ELSE /\ pc' = [pc EXCEPT ![c] = "awaiting"]
          /\ outcome' = [outcome EXCEPT ![c] = NoOutcome]
          /\ TryCandidate(c, f, 1, requests, <<>>, 0)
  /\ UNCHANGED <<clock, storage, response, ended, writer, ticks, helper>>

\* caller c calls use case f; d is the argument dateStr when f is
\* checkMarketStatus
CallWith(c, f, d) ==
  /\ pc[c] # "awaiting"
  /\ calls[c] < MaxCalls
  /\ calls' = [calls EXCEPT ![c] = @ + 1]
  /\ fn' = [fn EXCEPT ![c] = f]
  /\ dateStr' = [dateStr EXCEPT ![c] = IF f = "checkMarketStatus" THEN d ELSE ""]
  /\ errors' = [errors EXCEPT ![c] = <<>>]
  /\ now' = [now EXCEPT ![c] = IF f = "checkMarketStatus" THEN clock ELSE @]
  /\ IF f = "checkMarketStatus" /\ CacheHit(clock)
     THEN /\ pc' = [pc EXCEPT ![c] = "returned"]
          /\ outcome' = [outcome EXCEPT ![c] = Returned(JsonParse(storage[CACHE_KEY].value).v)]
          /\ trace' = [trace EXCEPT ![c] = <<>>]
          /\ idx' = [idx EXCEPT ![c] = 0]
          /\ issued' = [issued EXCEPT ![c] = 0]
          /\ UNCHANGED <<requests, result>>
     ELSE /\ pc' = [pc EXCEPT ![c] = "awaiting"]
          /\ outcome' = [outcome EXCEPT ![c] = NoOutcome]
          /\ TryCandidate(c, f, 1, requests, <<>>, 0)
  /\ UNCHANGED <<clock, storage, response, ended, writer, ticks, helper>>

\* the date the page asks the market status of
DefaultDate == "2024-01-15"

\* caller c calls use case f, checkMarketStatus with the date of the page
Call(c, f) == CallWith(c, f, DefaultDate)

\* the request of the candidate caller c is waiting for
Current(c) == [caller |-> c, model |-> MODELS[idx[c]]]

\* caller c is suspended on an attempt whose request is in flight
Awaiting(c) == pc[c] = "awaiting" /\ Current(c) \in requests

\* the request of caller c is settled: the continuation of its request
\* function is queued
Settled(c) == pc[c] = "awaiting" /\ response[c] # NoResponse

\* caller c is suspended on an attempt that has ended: the continuation of
\* generateWithFallback is queued
Resumable(c) == pc[c] = "awaiting" /\ result[c] # NoResult

\* generateWithFallback has ended for caller c: the continuation of the use
\* case is queued
Finishing(c) == pc[c] = "awaiting" /\ ended[c] # NoResult

\* the value of the time entry checkMarketStatus writes: now.toString(), now
\* being the clock value read on entry
WriteTime(c) == NatToString(now[c])

CacheWriteIfNewer(c, v) ==
  IF storage[CACHE_TIME_KEY].present /\ parseInt(storage[CACHE_TIME_KEY].value) > now[c]
  THEN storage
  ELSE [storage EXCEPT ![CACHE_KEY] = Stored(JsonStringify(v)),
                       ![CACHE_TIME_KEY] = Stored(WriteTime(c))]

CacheWriteStatusOnly(c, v) == [storage EXCEPT ![CACHE_KEY] = Stored(JsonStringify(v))]

\* the storage after the two setItem calls of checkMarketStatus for the
\* fetched value v
CacheWrite(c, v) ==
  [storage EXCEPT ![CACHE_KEY] = Stored(JsonStringify(v)),
                  ![CACHE_TIME_KEY] = Stored(WriteTime(c))]

\* the failure message the model takes as the ordinary one
PLAIN_MESSAGE == "rate limited"

\* the number of attempts of the current call of c that failed otherwise
Varied(c) ==
  Cardinality({n \in 1..Len(trace[c]) :
                 trace[c][n].ev = "fail" /\ trace[c][n].message # PLAIN_MESSAGE})

\* how many attempts of one call may fail otherwise than by the plain message
MaxVaried == 1

\* the attempt of caller c has ended with the value v: generateWithFallback
\* returns it (return await generateFn(model)); the use case that awaits
\* generateWithFallback is resumed in a later job
AttemptSucceeds(c, v) ==
  /\ result' = [result EXCEPT ![c] = NoResult]
  /\ trace' = [trace EXCEPT ![c] = Append(@, Succeeded(MODELS[idx[c]], v))]
  /\ ended' = [ended EXCEPT ![c] = Fulfilled(v)]
  /\ UNCHANGED <<requests, idx, errors, issued, storage, writer>>

AttemptRethrows(c, name, message) ==
  /\ ended' = [ended EXCEPT ![c] = Threw(name, message)]
  /\ result' = [result EXCEPT ![c] = NoResult]
  /\ trace' = [trace EXCEPT ![c] = Append(@, Failed(MODELS[idx[c]], name, message))]
  /\ UNCHANGED <<requests, idx, issued, errors, storage, writer>>

AttemptFailsCaching(c, name, message) ==
  LET model == MODELS[idx[c]]
      errs == Append(errors[c], FailureLine(model, message))
      tr == Append(trace[c], Failed(model, name, message))
  IN /\ errors' = [errors EXCEPT ![c] = errs]
     /\ IF NextCandidate(idx[c]) <= Len(MODELS)
        THEN /\ TryCandidate(c, fn[c], NextCandidate(idx[c]), requests, tr, issued[c])
             /\ UNCHANGED <<ended, storage, writer>>
        ELSE /\ ended' = [ended EXCEPT ![c] = Threw("Error", AggregateMessage(errs))]
             /\ result' = [result EXCEPT ![c] = NoResult]
             /\ trace' = [trace EXCEPT ![c] = tr]
             /\ storage' = CacheWrite(c, JObj(<< <<"status", JStr("UNKNOWN")>> >>))
             /\ UNCHANGED <<requests, idx, issued, writer>>

\* the attempt of caller c has ended with an error: it is caught, its line is
\* recorded, and in the same job the loop goes on to the next candidate or,
\* after the last, throws the aggregate error; the use case that awaits
\* generateWithFallback is resumed in a later job
AttemptFails(c, name, message) ==
  LET model == MODELS[idx[c]]
      errs == Append(errors[c], FailureLine(model, message))
      tr == Append(trace[c], Failed(model, name, message))
  IN /\ errors' = [errors EXCEPT ![c] = errs]
     /\ IF NextCandidate(idx[c]) <= Len(MODELS)
        THEN /\ TryCandidate(c, fn[c], NextCandidate(idx[c]), requests, tr, issued[c])
             /\ UNCHANGED ended
        ELSE /\ ended' = [ended EXCEPT ![c] = Threw("Error", AggregateMessage(errs))]
             /\ result' = [result EXCEPT ![c] = NoResult]
             /\ trace' = [trace EXCEPT ![c] = tr]
             /\ UNCHANGED <<requests, idx, issued>>
     /\ UNCHANGED <<storage, writer>>

\* the attempt of caller c has ended with r: return await generateFn(model),
\* or the catch clause
AttemptEnds(c, r) ==
  IF r.ok THEN AttemptSucceeds(c, r.value) ELSE AttemptFails(c, r.name, r.message)

\* a settlement after which the attempt of use case f fails by the plain
\* message or succeeds: the plain rejection, and the responses the use case
\* takes. checkMarketStatus takes every text; fetchComparison sets a property
\* on both stocks, so of the texts of the model it takes the one that holds
\* an object with both; the other use cases take each text in which cleanJson
\* finds a JSON value
Plain(f, env) ==
  IF env.kind = "reject" THEN env.message = PLAIN_MESSAGE
  ELSE \/ f = "checkMarketStatus"
       \/ env.text = JStr("Here is the analysis: {\"stockA\":{\"a\":1},\"stockB\":{}} as requested.")
       \/ /\ f # "fetchComparison"
          /\ env.text \in {JStr("{\"a\":1}"), JStr("ˋˋˋjson\n[1, 2]\nˋˋˋ")}

\* the failures other than the plain one are counted against MaxVaried: once
\* the call of caller c has had that many, the API settles its requests in
\* the ways of Plain only
Allowed(c, env) == Varied(c) >= MaxVaried => Plain(fn[c], env)

\* the API settles the request caller c is suspended on with env: the request
\* is no longer in flight; the request function suspended on it is resumed in
\* a later job of the queue
Settle(c, env) ==
  /\ Awaiting(c)
  /\ Allowed(c, env)
  /\ requests' = requests \ {Current(c)}
  /\ response' = [response EXCEPT ![c] = env]
  /\ UNCHANGED <<clock, storage, pc, fn, now, idx, errors, result, ended, trace, outcome, calls,
                 issued, writer, ticks, dateStr, helper>>

\* the request function of caller c is resumed with the settlement of its
\* request: it throws the rejection, or reads response.text and returns its
\* value or throws; generateWithFallback, which awaits it, is resumed in a
\* later job
RequestEnds(c) ==
  /\ Settled(c)
  /\ result' = [result EXCEPT ![c] = generateFn(fn[c], response[c])]
  /\ response' = [response EXCEPT ![c] = NoResponse]
  /\ UNCHANGED <<clock, storage, requests, pc, fn, now, idx, errors, ended, trace, outcome, calls,
                 issued, writer, ticks, dateStr, helper>>

\* generateWithFallback is resumed for caller c, the attempt it awaits having
\* ended: it returns the value, or runs the catch clause and then asks the
\* next candidate or throws the aggregate error
Resume(c) ==
  /\ Resumable(c)
  /\ AttemptEnds(c, result[c])
  /\ UNCHANGED <<clock, pc, outcome, response, fn, now, calls, ticks, dateStr, helper>>

\* the use case of caller c is resumed, generateWithFallback having ended:
\* with a value, checkMarketStatus writes both cache entries and returns it
\* and any other use case returns it; with the aggregate error, the use case
\* throws it. The promise the use case gave its caller is settled
UseCaseEnds(c) ==
  /\ Finishing(c)
  /\ ended' = [ended EXCEPT ![c] = NoResult]
  /\ IF ended[c].ok
     THEN /\ pc' = [pc EXCEPT ![c] = "returned"]
          /\ outcome' = [outcome EXCEPT ![c] = Returned(ended[c].value)]
          /\ IF fn[c] = "checkMarketStatus"
             THEN /\ storage' = CacheWrite(c, ended[c].value)
                  /\ writer' = c
             ELSE UNCHANGED <<storage, writer>>
     ELSE /\ pc' = [pc EXCEPT ![c] = "threw"]
          /\ outcome' = [outcome EXCEPT ![c] = Thrown(ended[c].name, ended[c].message)]
          /\ UNCHANGED <<storage, writer>>
  /\ UNCHANGED <<clock, requests, fn, now, idx, errors, response, result, trace, calls, issued,
                 ticks, dateStr, helper>>

(***************************************************************************)
(* The environment: the API, the clock and the other scripts of the page   *)
(***************************************************************************)

\* the messages the API rejects a request with
RejectMessages == {PLAIN_MESSAGE, "invalid arg"}

\* response texts of the market-status prompt
StatusTexts ==
  { JStr("STATUS: OPEN\nREASON: Regular trading session"),
    JStr("The market was shut.\nstatus:closed\nreason:  Weekend \nNo session."),
    JStr("I could not verify the calendar."),
    Undefined }

\* response texts of the JSON prompts
JsonTexts ==
  { JStr("{\"a\":1}"),
    JStr("Here is the analysis: {\"stockA\":{\"a\":1},\"stockB\":{}} as requested."),
    JStr("ˋˋˋjson\n[1, 2]\nˋˋˋ"),
    JStr("I am unable to answer."),
    JStr("{\"a\":1} (figures in {braces} are estimates)"),
    Undefined }

\* the grounding chunks of a response
ChunkLists ==
  { <<>>,
    << JObj(<< <<"web", JObj(<< <<"title", JStr("NSE")>>, <<"uri", JStr("https://nse.example/a")>> >>)>> >>),
       JObj(<< <<"retrievedContext", JObj(<<>>)>> >>),
       JObj(<< <<"web", JObj(<< <<"uri", JStr("https://bse.example/b")>> >>)>> >>) >> }

\* the ways the API can settle a request of use case f
Settlements(f) ==
  {Rejected(m) : m \in RejectMessages}
    \cup (CASE f = "checkMarketStatus" -> {Responded(t, <<>>) : t \in StatusTexts}
            [] f = "fetchStockExplanation" -> {Responded(t, ch) : t \in JsonTexts, ch \in ChunkLists}
            [] OTHER -> {Responded(t, <<>>) : t \in JsonTexts})

\* the clock steps of the model: a millisecond, 29 minutes, 30 minutes
TickSteps == {1, 29 * 60 * 1000, CACHE_DURATION}

\* how many clock steps a behaviour takes
MaxTicks == 2

\* time passes
Tick(d) ==
  /\ ticks < MaxTicks
  /\ ticks' = ticks + 1
  /\ clock' = clock + d
  /\ UNCHANGED <<storage, requests, pc, fn, now, idx, errors, response, result, ended, trace, outcome,
                 calls, issued, writer, dateStr, helper>>

\* what another script of the page may leave in an entry of the storage
CorruptValues == {"", "{\"status\":"}

\* another script of the page (or the user) overwrites an entry of the storage
Corrupt(k, v) ==
  /\ storage[k].present
  /\ storage' = [storage EXCEPT ![k] = Stored(v)]
  /\ writer' = IF k = CACHE_KEY THEN 0 ELSE writer
  /\ UNCHANGED <<clock, requests, pc, fn, now, idx, errors, response, result, ended, trace, outcome,
                 calls, issued, ticks, dateStr, helper>>

(***************************************************************************)
(* Specifications                                                          *)
(***************************************************************************)

\* one caller, every use case, every way an attempt can end
Next ==
  \/ \E f \in Fns : Call(1, f)
  \/ \E env \in Settlements(fn[1]) : Settle(1, env)
  \/ RequestEnds(1)
  \/ Resume(1)
  \/ UseCaseEnds(1)

Spec == Init /\ [][Next]_vars

\* the ways the API settles a request in the cache specification: a rejection
\* (counted against MaxVaried, so that a call there sees few of them), or a
\* response
CacheSettlements ==
  {Rejected("invalid arg")}
    \cup {Responded(t, <<>>) : t \in {JStr("STATUS: OPEN\nREASON: Regular trading session"),
                                      JStr("I could not verify the calendar.")}}

\* concurrent callers of checkMarketStatus, the clock and the storage
NextCache ==
  \/ \E c \in Callers : Call(c, "checkMarketStatus")
  \/ \E c \in Callers, env \in CacheSettlements : Settle(c, env)
  \/ \E c \in Callers : RequestEnds(c)
  \/ \E c \in Callers : Resume(c)
  \/ \E c \in Callers : UseCaseEnds(c)
  \/ \E d \in TickSteps : Tick(d)

SpecCache == Init /\ [][NextCache]_vars

\* one caller of checkMarketStatus, the clock, and another script of the page
\* that overwrites entries of the storage
NextCorrupt ==
  \/ Call(1, "checkMarketStatus")
  \/ \E env \in CacheSettlements : Settle(1, env)
  \/ RequestEnds(1)
  \/ Resume(1)
  \/ UseCaseEnds(1)
  \/ \E d \in TickSteps : Tick(d)
  \/ \E k \in {CACHE_KEY, CACHE_TIME_KEY}, v \in CorruptValues : Corrupt(k, v)

SpecCorrupt == Init /\ [][NextCorrupt]_vars

(***************************************************************************)
(* Properties of generateWithFallback                                      *)
(***************************************************************************)

\* the number of candidates the current call of c has tried
TriedCount(c) == Cardinality({n \in 1..Len(trace[c]) : trace[c][n].ev = "try"})

\* the trace of c tries the candidates in list order, each once, each but the
\* first right after the failure of the one before it, and nothing follows a
\* success
InListOrder(c) ==
  \A n \in 1..Len(trace[c]) :
    IF n % 2 = 1
    THEN trace[c][n].ev = "try" /\ trace[c][n].model = MODELS[(n + 1) \div 2]
    ELSE /\ trace[c][n].model = MODELS[n \div 2]
         /\ \/ trace[c][n].ev = "fail"
            \/ trace[c][n].ev = "ok" /\ n = Len(trace[c])

\* the call of c went through generateWithFallback and returned
ReturnedFromFallback(c) == pc[c] = "returned" /\ trace[c] # <<>>

\* C1: when candidates 1..N-1 fail and candidate N succeeds, the call returns
\* the value candidate N's attempt returned, candidates 1..N were each tried
\* once in list order, and no candidate after N is tried
C1_FirstSuccessReturned ==
  \A c \in Callers :
    ReturnedFromFallback(c) =>
      LET N == TriedCount(c)
      IN /\ InListOrder(c)
         /\ Len(trace[c]) = 2 * N
         /\ trace[c][2 * N].ev = "ok"
         /\ \A n \in 1..(N - 1) : trace[c][2 * n].ev = "fail"
         /\ outcome[c] = Returned(trace[c][2 * N].value)
         /\ InFlight(c) = {}

\* the scenario of the specification: the first two candidates fail, the
\* third succeeds
C1_Witness ==
  /\ ReturnedFromFallback(1)
  /\ TriedCount(1) = 3
  /\ trace[1][2].message = "rate limited" /\ trace[1][4].message = "invalid arg"
  /\ outcome[1].value = JObj(<< <<"a", <<"num", "1">> >> >>)

RECURSIVE Split(_, _)
\* s.split(sep) for a separator of one character
Split(s, sep) ==
  LET at == {i \in 1..Len(s) : Ch(s, i) = sep}
      i == CHOOSE a \in at : \A b \in at : a <= b
  IN IF at = {} THEN <<s>> ELSE <<SubSeq(s, 1, i - 1)>> \o Split(From(s, i + 1), sep)

\* the message candidate n of the current call of c failed with
FailureMessage(c, n) == trace[c][2 * n].message

\* the call of c ended with every candidate failed
AllFailed(c) == pc[c] = "threw"

\* C2, as claimed: when every candidate fails, the message of the error thrown
\* has exactly one line per candidate, in candidate order, each line beginning
\* with the identifier of its candidate and carrying its error message
C2_Original ==
  \A c \in Callers :
    AllFailed(c) =>
      LET lines == Split(outcome[c].message, "\n")
      IN /\ Len(lines) = Len(MODELS)
         /\ \A n \in 1..Len(MODELS) :
              /\ StartsAt(lines[n], MODELS[n], 1)
              /\ Includes(lines[n], FailureMessage(c, n))

\* C2, amended: when every candidate fails, the error thrown is an Error whose
\* message is the header "All models failed. Details:" followed by one entry
\* per candidate, in candidate order, each on a new line and of the form
\* "Model <identifier> failed: <the error message of that candidate>"
C2_AggregateMessage ==
  \A c \in Callers :
    AllFailed(c) =>
      /\ Len(trace[c]) = 2 * Len(MODELS)
      /\ outcome[c].kind = "throw" /\ outcome[c].name = "Error"
      /\ outcome[c].message =
           "All models failed. Details:"
             \o join([n \in 1..Len(MODELS) |->
                        "\nModel " \o MODELS[n] \o " failed: " \o FailureMessage(c, n)], "")

\* every candidate failed, one of them otherwise than the others
C2_Witness ==
  /\ AllFailed(1)
  /\ fn[1] = "fetchStockExplanation"
  /\ FailureMessage(1, 1) = "rate limited"
  /\ FailureMessage(1, Len(MODELS)) = "invalid arg"

\* the attempt n of the current call of c threw the SyntaxError of JSON.parse
ParseFailureAt(c, n) ==
  n \in 1..Len(trace[c]) /\ trace[c][n].ev = "fail" /\ trace[c][n].name = "SyntaxError"

\* C3, as claimed: when the text of a response does not parse, the use case
\* throws the parse error to its caller: a SyntaxError, not the aggregate
\* error, carrying no model identifier
C3_Original ==
  \A c \in Callers : \A n \in 1..Len(trace[c]) :
    ParseFailureAt(c, n) =>
      /\ pc[c] = "threw"
      /\ outcome[c].name = "SyntaxError"
      /\ ~Includes(outcome[c].message, trace[c][n].model)

\* the continuations of the call of caller c that are queued: that of the
\* request function, that of generateWithFallback, that of the use case
Queued(c) ==
  {k \in {"request function", "generateWithFallback", "use case"} :
     \/ k = "request function" /\ response[c] # NoResponse
     \/ k = "generateWithFallback" /\ result[c] # NoResult
     \/ k = "use case" /\ ended[c] # NoResult}

\* C8: within one call at most one request is in flight: a candidate is tried
\* only after the attempt of the one before it has settled as a failure, and
\* the caller has no outcome while the call is pending (its request in
\* flight, or one continuation queued: the attempt is over once
\* generateWithFallback has taken its result)
C8_OneInFlight ==
  \A c \in Callers :
    /\ Cardinality(InFlight(c)) <= 1
    /\ InListOrder(c)
    /\ pc[c] = "awaiting" =>
         /\ outcome[c] = NoOutcome
         /\ Len(trace[c]) = IF ended[c] = NoResult THEN 2 * idx[c] - 1 ELSE 2 * idx[c]
         /\ Cardinality(Queued(c)) <= 1
         /\ InFlight(c) = IF Queued(c) = {} THEN {Current(c)} ELSE {}
         /\ issued[c] = IF Requesting(fn[c]) THEN idx[c] ELSE 0
    /\ pc[c] # "awaiting" => InFlight(c) = {} /\ Queued(c) = {}

\* the fifth candidate is being waited for, the four before it have failed
C8_Witness ==
  /\ pc[1] = "awaiting" /\ idx[1] = 5
  /\ InFlight(1) = {[caller |-> 1, model |-> MODELS[5]]}
  /\ issued[1] = 5
  /\ \A n \in 1..4 : trace[1][2 * n].ev = "fail"

(***************************************************************************)
(* Properties of the market-status cache                                   *)
(***************************************************************************)

THIRTY_MINUTES == 30 * 60 * 1000

\* this step is caller c calling checkMarketStatus
CallsCheckMarketStatus(c) == calls'[c] = calls[c] + 1 /\ fn'[c] = "checkMarketStatus"

\* the storage holds a timestamp, and it is less than 30 minutes old
TimestampFresh ==
  /\ storage[CACHE_TIME_KEY].present
  /\ parseInt(storage[CACHE_TIME_KEY].value) # NaN
  /\ clock - parseInt(storage[CACHE_TIME_KEY].value) < THIRTY_MINUTES

\* the storage lacks an entry, or its timestamp is 30 minutes old or older
AbsentOrExpired ==
  \/ ~storage[CACHE_KEY].present
  \/ ~storage[CACHE_TIME_KEY].present
  \/ /\ parseInt(storage[CACHE_TIME_KEY].value) # NaN
     /\ clock - parseInt(storage[CACHE_TIME_KEY].value) >= THIRTY_MINUTES

\* this step starts a fetch for caller c, as a cache miss does: the first
\* candidate is requested, and only it; nothing is returned or stored yet
StartsFetch(c) ==
  /\ pc'[c] = "awaiting"
  /\ outcome'[c] = NoOutcome
  /\ [caller |-> c, model |-> MODELS[1]] \notin requests
  /\ requests' = requests \cup {[caller |-> c, model |-> MODELS[1]]}
  /\ issued'[c] = 1
  /\ storage' = storage

\* this step ends a fetch of checkMarketStatus for caller c with a value
FetchReturns(c) == fn[c] = "checkMarketStatus" /\ pc[c] = "awaiting" /\ pc'[c] = "returned"

\* the value the fetch returns is the one its last attempt gave, and both
\* entries of the storage are overwritten: the status with that value, the
\* timestamp with the time the call read on entry
ReturnsAndOverwrites(c) ==
  /\ outcome'[c] = Returned(trace'[c][Len(trace'[c])].value)
  /\ storage'[CACHE_KEY] = Stored(JsonStringify(outcome'[c].value))
  /\ storage'[CACHE_TIME_KEY] = Stored(NatToString(now[c]))

\* C4: a call made while the storage holds a parseable status and a timestamp
\* less than 30 minutes old returns the stored status, makes no request and
\* leaves both entries of the storage as they are
C4_CacheHit ==
  [][\A c \in Callers :
       (/\ CallsCheckMarketStatus(c)
        /\ storage[CACHE_KEY].present /\ JsonParse(storage[CACHE_KEY].value).ok
        /\ TimestampFresh)
         => /\ pc'[c] = "returned"
            /\ outcome'[c] = Returned(JsonParse(storage[CACHE_KEY].value).v)
            /\ JsonStringify(outcome'[c].value) = storage[CACHE_KEY].value
            /\ requests' = requests
            /\ issued'[c] = 0
            /\ storage' = storage]_vars

\* a call was answered from an entry 29 minutes old or older
C4_Witness ==
  \E c \in Callers :
    /\ fn[c] = "checkMarketStatus" /\ pc[c] = "returned" /\ trace[c] = <<>>
    /\ now[c] - parseInt(storage[CACHE_TIME_KEY].value) >= 29 * 60 * 1000
    /\ outcome[c].value =
         JObj(<< <<"status", JStr("OPEN")>>, <<"reason", JStr("Regular trading session")>> >>)

\* caller c is in a fetch of checkMarketStatus
Fetching(c) == fn[c] = "checkMarketStatus" /\ pc[c] = "awaiting"

\* this step ends a fetch of checkMarketStatus for caller c with an error
FetchThrows(c) == fn[c] = "checkMarketStatus" /\ pc[c] = "awaiting" /\ pc'[c] = "threw"

\* this step of a fetch of caller c takes the failure of the candidate that
\* was asked and asks the next one: one more request, and only one in flight
AsksNextCandidate(c) ==
  /\ Len(errors'[c]) = Len(errors[c]) + 1
  /\ idx'[c] = idx[c] + 1
  /\ InFlight(c) = {}
  /\ requests' = requests \cup {[caller |-> c, model |-> MODELS[idx'[c]]]}
  /\ storage' = storage

\* C5, as claimed: a call made while an entry is absent, or while the
\* timestamp is 30 minutes old or older (exactly 30 minutes included), does
\* not use the stored value; it triggers exactly one new request, and when it
\* returns, its result overwrites the stored status and the stored timestamp
C5_Original ==
  [][\A c \in Callers :
       /\ (CallsCheckMarketStatus(c) /\ AbsentOrExpired) => StartsFetch(c)
       /\ Fetching(c) => issued'[c] = 1
       /\ FetchReturns(c) => ReturnsAndOverwrites(c)]_vars

\* C5, amended: such a call does not use the stored value and asks the first
\* candidate; each time the candidate asked fails and another is left, the
\* call asks the next one, so it makes one request per candidate tried, from
\* 1 to 11, one at a time; when the fetch returns, its value and the time the
\* call read on entry overwrite the stored status and the stored timestamp;
\* when every candidate has failed the call throws and overwrites nothing
C5_CacheExpiry ==
  [][\A c \in Callers :
       /\ (CallsCheckMarketStatus(c) /\ AbsentOrExpired) => StartsFetch(c)
       /\ Fetching(c) =>
            /\ issued[c] = idx[c] /\ issued[c] \in 1..Len(MODELS)
            /\ issued'[c] # issued[c] => issued'[c] = issued[c] + 1 /\ AsksNextCandidate(c)
       /\ FetchReturns(c) => ReturnsAndOverwrites(c)
       /\ FetchThrows(c) => issued[c] = Len(MODELS) /\ storage' = storage]_vars

\* a second call found the entry exactly 30 minutes old and fetched: the
\* first candidate failed, the second answered, and its value replaced a
\* different one
C5_Witness ==
  \E c \in Callers :
    /\ calls[c] = 2 /\ ReturnedFromFallback(c)
    /\ now[c] = StartTime + THIRTY_MINUTES
    /\ issued[c] = 2
    /\ outcome[c].value[2][1][2] = JStr("UNKNOWN")
    /\ storage[CACHE_KEY].value = JsonStringify(outcome[c].value)
    /\ storage[CACHE_TIME_KEY].value = NatToString(StartTime + THIRTY_MINUTES)

\* C6: calls that interleave can each miss the cache and each make its own
\* requests; once all have returned, the storage holds the value (and the entry
\* time) of the call that wrote last
C6_LastWriteWins ==
  \A c \in Callers :
    (writer = c /\ \A d \in Callers : ReturnedFromFallback(d))
      => /\ storage[CACHE_KEY] = Stored(JsonStringify(outcome[c].value))
         /\ storage[CACHE_TIME_KEY] = Stored(NatToString(now[c]))

\* two first calls, less than 30 minutes apart, both fetched (so the second
\* started before the first had written), they got different values, and the
\* one that entered first wrote last
C6_Witness ==
  /\ calls[1] = 1 /\ calls[2] = 1
  /\ ReturnedFromFallback(1) /\ ReturnedFromFallback(2)
  /\ clock - StartTime < THIRTY_MINUTES
  /\ outcome[1] # outcome[2]
  /\ writer = 1 /\ now[1] < now[2]
  /\ storage[CACHE_KEY].value = JsonStringify(outcome[1].value)

\* C7: a call made while the stored status is within the freshness window but
\* does not parse throws nothing: it goes on as a cache miss does, and when
\* its fetch returns a value, that value is returned and overwrites the status
\* and the timestamp of the storage
C7_CorruptEntryIsMiss ==
  [][\A c \in Callers :
       /\ (/\ CallsCheckMarketStatus(c)
           /\ storage[CACHE_KEY].present /\ ~JsonParse(storage[CACHE_KEY].value).ok
           /\ TimestampFresh)
            => StartsFetch(c)
       /\ FetchReturns(c) => ReturnsAndOverwrites(c)]_vars

\* a second call is fetching although the timestamp was fresh when it
\* entered: the status it found does not parse
C7_Witness ==
  /\ calls[1] = 2 /\ pc[1] = "awaiting"
  /\ storage[CACHE_KEY].value = "{\"status\":"
  /\ parseInt(storage[CACHE_TIME_KEY].value) # NaN
  /\ now[1] - parseInt(storage[CACHE_TIME_KEY].value) < THIRTY_MINUTES

(***************************************************************************)
(* getSmartConfig on its own                                               *)
(***************************************************************************)

\* { type: Type.<t> }: the schema of a value of one type (the members of the
\* enumeration Type are their own names)
OfType(t) == JObj(<< <<"type", JStr(t)>> >>)

\* { type: Type.STRING, enum: [...] }
OneOf(names) ==
  JObj(<< <<"type", JStr("STRING")>>, <<"enum", JArr(SubSeq([n \in 1..Len(names) |-> JStr(names[n])], 1, Len(names)))>> >>)

\* { type: Type.STRING, description: ... }
Described(text) == JObj(<< <<"type", JStr("STRING")>>, <<"description", JStr(text)>> >>)

\* { type: Type.OBJECT, properties: {...}, required: [...] }
ObjectOf(properties, required) ==
  JObj(<< <<"type", JStr("OBJECT")>>,
          <<"properties", JObj(properties)>>,
          <<"required", JArr(SubSeq([n \in 1..Len(required) |-> JStr(required[n])], 1, Len(required)))>> >>)

stockExplanationSchema ==
  ObjectOf(
    << <<"stockName", OfType("STRING")>>,
       <<"priceChange", OfType("STRING")>>,
       <<"direction", OneOf(<<"up", "down", "neutral">>)>>,
       <<"oneLineSummary", OfType("STRING")>>,
       <<"historicalPrices",
         JObj(<< <<"type", JStr("ARRAY")>>,
                 <<"items", OfType("NUMBER")>>,
                 <<"description",
                   JStr("Approximate closing prices for the last 7 trading sessions.")>> >>)>>,
       <<"cards",
         ObjectOf(
           << <<"marketContext", OfType("STRING")>>,
              <<"sectorPerformance", OfType("STRING")>>,
              <<"newsImpact",
                ObjectOf(
                  << <<"text", OfType("STRING")>>,
                     <<"impact", OneOf(<<"High", "Medium", "Low", "None">>)>>,
                     <<"sentiment", OneOf(<<"Positive", "Negative", "Neutral">>)>>,
                     <<"url",
                       Described("Direct URL to the most relevant news source used for this analysis.")>> >>,
                  <<"text", "impact", "sentiment">>)>>,
              <<"tradingActivity", OfType("STRING")>>,
              <<"historicalPattern", OfType("STRING")>> >>,
           <<"marketContext", "sectorPerformance", "newsImpact", "tradingActivity",
             "historicalPattern">>)>>,
       <<"premiumInsight",
         Described("A deeper dive into FII flow, order book dynamics, or hidden corporate triggers.")>>,
       <<"finalTakeaway", OfType("STRING")>> >>,
    <<"stockName", "priceChange", "direction", "oneLineSummary", "cards", "finalTakeaway",
      "historicalPrices", "premiumInsight">>)

\* the schema of fetchComparison
comparisonSchema ==
  ObjectOf(
    << <<"stockA", stockExplanationSchema>>,
       <<"stockB", stockExplanationSchema>>,
       <<"comparisonSummary",
         Described("A summary of how these two stocks differ in their recent movement drivers.")>> >>,
    <<"stockA", "stockB", "comparisonSummary">>)

\* the schema of fetchDiscoverySuggestions
discoverySchema ==
  ObjectOf(
    << <<"profileAnalysis", OfType("STRING")>>,
       <<"suggestedStocks",
         JObj(<< <<"type", JStr("ARRAY")>>,
                 <<"items",
                   ObjectOf(
                     << <<"name", OfType("STRING")>>,
                        <<"ticker", OfType("STRING")>>,
                        <<"reasoning", OfType("STRING")>>,
                        <<"fundamentals", OfType("STRING")>>,
                        <<"newsImpact", OfType("STRING")>>,
                        <<"risks", OfType("STRING")>>,
                        <<"learningFocus", OfType("STRING")>> >>,
                     <<"name", "ticker", "reasoning", "fundamentals", "newsImpact", "risks",
                       "learningFocus">>)>> >>)>> >>,
    <<"profileAnalysis", "suggestedStocks">>)

\* the schema of fetchRebalancingSuggestions
rebalancingSchema ==
  ObjectOf(
    << <<"analysis", OfType("STRING")>>,
       <<"diversificationScore", OfType("NUMBER")>>,
       <<"suggestions",
         JObj(<< <<"type", JStr("ARRAY")>>,
                 <<"items",
                   ObjectOf(
                     << <<"title", OfType("STRING")>>,
                        <<"description", OfType("STRING")>>,
                        <<"type", OneOf(<<"Risk", "Opportunity", "Balance">>)>> >>,
                     <<"title", "description", "type">>)>> >>)>> >>,
    <<"analysis", "diversificationScore", "suggestions">>)

\* the schemas the use cases give to getSmartConfig
Schemas == {stockExplanationSchema, comparisonSchema, discoverySchema, rebalancingSchema}

RECURSIVE StringsOver(_, _)
\* the strings of at most n pieces, each piece taken from atoms
StringsOver(atoms, n) ==
  IF n = 0 THEN {""}
  ELSE LET shorter == StringsOver(atoms, n - 1)
       IN shorter \cup {s \o a : s \in shorter, a \in atoms}

\* the longest made-up model identifier
MaxIdLen == 4

\* the model identifiers getSmartConfig is given: the candidates, and every
\* short string over the letters of "lite" and the hyphen
ModelIds == {MODELS[n] : n \in 1..Len(MODELS)} \cup StringsOver({"l", "i", "t", "e", "-"}, MaxIdLen)

ConfigInputs ==
  {<<m, sch, ins>> : m \in ModelIds,
                     sch \in Schemas,
                     ins \in {EXPLAINER_SYSTEM_INSTRUCTION, REBALANCER_SYSTEM_INSTRUCTION, ""}}

InitConfig == SessionStart /\ input \in ConfigInputs /\ output = <<>>

\* getSmartConfig is applied to the arguments
ApplyGetSmartConfig ==
  /\ output = <<>>
  /\ output' = getSmartConfig(input[1], input[2], input[3])
  /\ UNCHANGED <<session, input>>

SpecConfig == InitConfig /\ [][ApplyGetSmartConfig]_vars

\* the identifier holds the four letters l, i, t, e in a row
ContainsLite(m) == \E i \in 1..(Len(m) - 3) : SubSeq(m, i, i + 3) = "lite"

\* C9: for an identifier that contains "lite" the configuration has neither
\* responseMimeType nor responseSchema and its systemInstruction is the given
\* instruction with the raw-JSON directive appended; for any other identifier
\* it has responseMimeType "application/json", the given schema as
\* responseSchema, and the given instruction unchanged
C9_ConfigShape ==
  output # <<>> =>
    LET config == output[2]
    IN IF ContainsLite(input[1])
       THEN /\ ~HasKey(config, "responseMimeType")
            /\ ~HasKey(config, "responseSchema")
            /\ GetMember(config, "systemInstruction") = JStr(input[3] \o LITE_DIRECTIVE)
       ELSE /\ GetMember(config, "responseMimeType") = JStr("application/json")
            /\ GetMember(config, "responseSchema") = input[2]
            /\ GetMember(config, "systemInstruction") = JStr(input[3])

\* the configuration of a lite candidate has been built
C9_Witness ==
  /\ output # <<>>
  /\ input = <<MODELS[2], stockExplanationSchema, EXPLAINER_SYSTEM_INSTRUCTION>>
  /\ output[2] = << <<"systemInstruction", JStr(EXPLAINER_SYSTEM_INSTRUCTION \o LITE_DIRECTIVE)>>,
                    <<"tools", SEARCH_TOOLS>> >>

(***************************************************************************)
(* cleanJson on its own                                                    *)
(***************************************************************************)

\* the longest text of the exhaustive part
MaxTextLen == 4

\* the longest prose before and after an embedded document
MaxProseLen == 2

\* well-formed JSON objects and arrays
JsonDocs ==
  {"{}", "[1]", "{\"k\":1}", "[[1],{}]", "{\"k\":[1, 2]}", "[{\"k\":{}}]"}

\* the texts cleanJson is given: every short text over braces, brackets and a
\* few other characters, and every document between two short pieces of prose
CleanTexts ==
  StringsOver({"{", "}", "[", "]", "1", ",", "x", " "}, MaxTextLen)
    \cup {pre \o doc \o post : pre \in StringsOver({"a", " ", "}", "["}, MaxProseLen),
                               doc \in JsonDocs,
                               post \in StringsOver({"a", " ", "}", "["}, MaxProseLen)}

InitClean == SessionStart /\ input \in {<<t>> : t \in CleanTexts} /\ output = <<>>

\* cleanJson is applied to the text
ApplyCleanJson ==
  /\ output = <<>>
  /\ output' = <<cleanJson(input[1])>>
  /\ UNCHANGED <<session, input>>

SpecClean == InitClean /\ [][ApplyCleanJson]_vars

\* text[i..j] is a well-formed JSON object or array
EmbeddedDoc(text, i, j) ==
  /\ Ch(text, i) \in {"{", "["}
  /\ Ch(text, j) \in {"}", "]"}
  /\ JsonParse(SubSeq(text, i, j)).ok

HasBraceOrBracket(s) == \E n \in 1..Len(s) : Ch(s, n) \in {"{", "}", "[", "]"}

\* the documents of the text that lie in no larger document of it
OutermostDocs(text) ==
  {d \in (1..Len(text)) \X (1..Len(text)) :
     /\ d[1] <= d[2]
     /\ EmbeddedDoc(text, d[1], d[2])
     /\ ~\E i \in 1..d[1] : \E j \in d[2]..Len(text) :
           <<i, j>> # d /\ EmbeddedDoc(text, i, j)}

\* C10, as claimed: whenever the text holds a well-formed JSON object or array
\* inside prose, prose with braces or brackets included, what cleanJson returns
\* parses to the structure of that object or array (stated for the texts that
\* hold one document, so that the prose is all the rest)
C10_Original ==
  output # <<>> =>
    \A d \in OutermostDocs(input[1]) :
      Cardinality(OutermostDocs(input[1])) = 1 =>
        /\ JsonParse(output[1]).ok
        /\ JsonParse(output[1]).v = JsonParse(SubSeq(input[1], d[1], d[2])).v

\* C10, amended: whenever the text holds a well-formed JSON object or array
\* inside prose that has no brace and no bracket in it, what cleanJson returns
\* parses to the structure of that object or array
C10_ExtractsEmbeddedJson ==
  output # <<>> =>
    \A i \in 1..Len(input[1]) : \A j \in i..Len(input[1]) :
      (/\ EmbeddedDoc(input[1], i, j)
       /\ ~HasBraceOrBracket(SubSeq(input[1], 1, i - 1))
       /\ ~HasBraceOrBracket(SubSeq(input[1], j + 1, Len(input[1]))))
        => /\ JsonParse(output[1]).ok
           /\ JsonParse(output[1]).v = JsonParse(SubSeq(input[1], i, j)).v

\* a nested document between two pieces of prose has been extracted
C10_Witness ==
  /\ input = <<"a [[1],{}] a">>
  /\ output = <<"[[1],{}]">>

(***************************************************************************)
(* The fallback of cleanJson on its own                                    *)
(***************************************************************************)

\* what a fenced text holds between its fences
FenceBodies == {"", "x", "a b", "json", "js\nx", "{\"k\":", "]", "ˋ", "x ˋˋ y", "~~~"}

\* the white space around a fence
FenceSpaces == {"", " ", "\n"}

\* the texts of the fence study: a body with or without a leading fence (with
\* or without the tag json) and a trailing fence, white space around each
FencedTexts ==
  {w[1] \o lead \o w[2] \o body \o w[3] \o trail \o w[4] :
     w \in FenceSpaces \X FenceSpaces \X FenceSpaces \X FenceSpaces,
     lead \in {"", FENCE3, FENCE3 \o "json"},
     body \in FenceBodies,
     trail \in {"", FENCE3}}

InitFence == SessionStart /\ input \in {<<t>> : t \in FencedTexts} /\ output = <<>>

SpecFence == InitFence /\ [][ApplyCleanJson]_vars

\* the brace/bracket scan matches nothing in the text
NoScanMatch(text) == \A i \in 1..Len(text) : \A j \in (i + 1)..Len(text) :
  ~(Ch(text, i) = "{" /\ Ch(text, j) = "}") /\ ~(Ch(text, i) = "[" /\ Ch(text, j) = "]")

\* the fence a text with no white space before it begins with, without a tag
BareFence(t) == IF StartsAt(t, FENCE3, 1) THEN FENCE3 ELSE ""

\* the tag of the leading fence: the characters that follow the triple grave
\* accent directly, up to the first white space or grave accent
FenceTag(t) ==
  IF ~StartsAt(t, FENCE3, 1) THEN ""
  ELSE LET TagStop(n) == n > Len(t) \/ IsSpace(Ch(t, n)) \/ Ch(t, n) = CodeUnit(96)
           stop == CHOOSE n \in 4..(Len(t) + 1) : TagStop(n) /\ \A m \in 4..(n - 1) : ~TagStop(m)
       IN SubSeq(t, 4, stop - 1)

\* the leading fence as line 14 takes it: the triple grave accent, together
\* with the four letters json when they follow it directly
LeadingFence(t) ==
  IF StartsAt(t, FENCE3 \o "json", 1) THEN FENCE3 \o "json"
  ELSE BareFence(t)

\* the text ends with the fence
EndsWithFence(t) == Len(t) >= 3 /\ SubSeq(t, Len(t) - 2, Len(t)) = FENCE3

\* what is left of a text that begins with lead when lead and, of the rest,
\* the trailing fence are taken away
Without(t, lead) ==
  LET rest == From(t, Len(lead) + 1)
  IN IF EndsWithFence(rest) THEN SubSeq(rest, 1, Len(rest) - 3) ELSE rest

\* what is left of a text with no white space around it when its leading fence
\* and, of the rest, its trailing fence are taken away
Unfenced(t) == Without(t, LeadingFence(t))

\* s without the white space at its two ends
Trimmed(s) ==
  LET inner == {n \in 1..Len(s) : ~IsSpace(Ch(s, n))}
  IN IF inner = {} THEN ""
     ELSE SubSeq(s, CHOOSE a \in inner : \A b \in inner : a <= b,
                    CHOOSE a \in inner : \A b \in inner : b <= a)

\* the text is wrapped in a leading fence, a trailing fence or both, and holds
\* no other fence
WrappedOnlyInFences(text) ==
  /\ BareFence(Trimmed(text)) # "" \/ EndsWithFence(Trimmed(text))
  /\ ~Includes(Without(Trimmed(text), BareFence(Trimmed(text))), FENCE3)

\* the text without its fences, the fence being the triple grave accent alone
FenceRemoved(text) == Trimmed(Without(Trimmed(text), BareFence(Trimmed(text))))

\* the text without its fences, the leading fence being the triple grave
\* accent with its tag, whatever the tag is
TaggedFenceRemoved(text) ==
  Trimmed(Without(Trimmed(text), BareFence(Trimmed(text)) \o FenceTag(Trimmed(text))))

\* C11, as claimed: for a text in which the brace/bracket scan matches nothing
\* and which is wrapped only in a leading fence, a trailing fence or both,
\* cleanJson returns the text with the fences removed and the white space
\* around what is left trimmed, whether the fence is read as the triple grave
\* accent alone or as the triple grave accent with the tag that follows it
C11_Original ==
  output # <<>> =>
    ((NoScanMatch(input[1]) /\ WrappedOnlyInFences(input[1]))
       => output[1] \in {FenceRemoved(input[1]), TaggedFenceRemoved(input[1])})

\* C11, amended: for such a text cleanJson returns the text without the
\* leading triple grave accent, without the four letters json when they
\* follow it directly (and only then: any other tag stays, and a body that
\* begins with json right after the fence loses those letters), without the
\* trailing triple grave accent, and without the white space around what is
\* left
C11_FenceStripped ==
  output # <<>> =>
    ((NoScanMatch(input[1]) /\ WrappedOnlyInFences(input[1]))
       => output[1] = Trimmed(Unfenced(Trimmed(input[1]))))

\* a text with both fences, the tag and white space around each has been
\* stripped to its body
C11_Witness ==
  /\ input = <<" ˋˋˋjson\na b\nˋˋˋ\n">>
  /\ output = <<"a b">>

(***************************************************************************)
(* More properties of the market-status cache                              *)
(***************************************************************************)

\* how long after a write a call reads the cache: at once, a millisecond
\* later, a millisecond less than 30 minutes later
ReadDelays == {0, 1, THIRTY_MINUTES - 1}

\* C12, as claimed: when a fetch of checkMarketStatus returns, the timestamp it
\* stores is the time of the write, so the cache is fresh from the write on: a
\* call made less than 30 minutes after the write finds the timestamp less
\* than 30 minutes old (and is answered from the cache), however long the
\* fetch lasted
C12_Original ==
  [][\A c \in Callers :
       FetchReturns(c) =>
         /\ parseInt(storage'[CACHE_TIME_KEY].value) # NaN
         /\ \A d \in ReadDelays :
              (clock' + d) - parseInt(storage'[CACHE_TIME_KEY].value) < THIRTY_MINUTES]_vars

(***************************************************************************)
(* More properties of generateWithFallback                                 *)
(***************************************************************************)

\* the number of attempts of the current call of c that have failed
FailedCount(c) == Cardinality({n \in 1..Len(trace[c]) : trace[c][n].ev = "fail"})

\* C13: no error of a single candidate reaches the caller: whatever the class
\* of the error an attempt threw (the Error of a rejected request, a TypeError,
\* a SyntaxError, a ReferenceError), its line is recorded and the next
\* candidate is tried; the one error a call throws is the aggregate Error, and
\* it throws it only when every candidate has failed
C13_OnlyAggregateSurfaces ==
  \A c \in Callers :
    /\ Len(errors[c]) = FailedCount(c)
    /\ \A n \in 1..Len(trace[c]) :
         trace[c][n].ev = "fail" =>
           /\ errors[c][n \div 2] = "Model " \o MODELS[n \div 2] \o " failed: " \o trace[c][n].message
           /\ n \div 2 < Len(MODELS) =>
                n < Len(trace[c]) /\ trace[c][n + 1] = Tried(MODELS[(n \div 2) + 1])
           /\ (n \div 2 < Len(MODELS) /\ n + 1 = Len(trace[c])) => outcome[c] = NoOutcome
    /\ outcome[c].kind = "throw" =>
         /\ pc[c] = "threw"
         /\ outcome[c].name = "Error"
         /\ StartsAt(outcome[c].message, "All models failed. Details:\n", 1)
         /\ FailedCount(c) = Len(MODELS)
         /\ \A n \in 1..Len(trace[c]) : outcome[c].message # trace[c][n].message
    /\ pc[c] = "threw" => outcome[c].kind = "throw"

\* a call of fetchComparison threw the aggregate error; its first candidate
\* had thrown a TypeError, the others had their requests rejected
C13_Witness ==
  /\ fn[1] = "fetchComparison"
  /\ outcome[1].kind = "throw"
  /\ trace[1][2].name = "TypeError"
  /\ \A n \in 2..Len(MODELS) : trace[1][2 * n].name = "Error"

\* the attempt caller c is suspended on settles in some way; the rejections,
\* which are among the settlements, are named first: whether the step is
\* possible is decided on them
SettleSome(c) ==
  \/ \E m \in RejectMessages : Settle(c, Rejected(m))
  \/ \E env \in Settlements(fn[c]) : Settle(c, env)

\* the scheduling the termination of a call rests on: the pending result of
\* the attempt the caller is suspended on eventually settles, and the job
\* queue runs every continuation that is queued. RequestEnds(1) is possible
\* exactly in the states of Settled(1) and leaves them, so its weak fairness
\* is that Settled(1) does not hold for ever, and it is stated so: it is then
\* decided on the state, without computing what the request function gives
SettlesEventually ==
  /\ WF_vars(SettleSome(1))
  /\ []<>~Settled(1)
  /\ WF_vars(Resume(1)) /\ WF_vars(UseCaseEnds(1))

SpecLive == Init /\ [][Next]_vars /\ SettlesEventually

\* the call of c is over: it returned a value or threw
Completed(c) == pc[c] \in {"returned", "threw"}

\* the current call of c has invoked at most as many candidates as there are,
\* and none of them twice
EachCandidateOnce(c) ==
  LET tries == {n \in 1..Len(trace[c]) : trace[c][n].ev = "try"}
  IN /\ Cardinality(tries) <= Len(MODELS)
     /\ \A m \in tries : \A n \in tries : trace[c][m].model = trace[c][n].model => m = n

\* a call that is over ended with a returned result or with the aggregate error
EndedProperly(c) ==
  pc[c] = "threw" =>
    /\ outcome[c].name = "Error"
    /\ outcome[c].message = AggregateMessage(errors[c])
    /\ Len(errors[c]) = Len(MODELS)

\* this step follows the settling of the attempt caller c is suspended on:
\* the attempt has ended, its request is no longer in flight, and how it
\* ended is recorded next in the trace
SettlesPending(c) ==
  /\ result[c] # NoResult
  /\ Current(c) \notin requests
  /\ Len(trace'[c]) > Len(trace[c])
  /\ trace'[c][Len(trace[c]) + 1].ev = (IF result[c].ok THEN "ok" ELSE "fail")
  /\ trace'[c][Len(trace[c]) + 1].model = MODELS[idx[c]]

\* this step of generateWithFallback ends it for caller c or tries a later
\* candidate
EndsOrGoesOn(c) == (ended[c] = NoResult /\ ended'[c] # NoResult) \/ idx'[c] # idx[c]

\* generateWithFallback has ended for caller c, and this step gives the
\* caller what it ended with
GivesWhatEnded(c) ==
  /\ ended[c] # NoResult
  /\ outcome'[c] = IF ended[c].ok THEN Returned(ended[c].value)
                   ELSE Thrown(ended[c].name, ended[c].message)

\* C14: provided the pending result of every attempt eventually settles, a
\* call of generateWithFallback ends, with a returned result or with the
\* aggregate error, after at most as many invocations as there are candidates
\* and with no candidate invoked twice; and a suspended call completes or
\* tries a later candidate only in a step that follows the settling of its
\* pending attempt, so that an attempt that never settles leaves the call
\* suspended for ever
C14_Terminates ==
  /\ [](\A c \in Callers : EachCandidateOnce(c) /\ EndedProperly(c))
  /\ [][\A c \in Callers :
          /\ (pc[c] = "awaiting" /\ EndsOrGoesOn(c)) => SettlesPending(c)
          /\ (pc[c] = "awaiting" /\ pc'[c] # "awaiting") => GivesWhatEnded(c)]_vars
  /\ (pc[1] = "awaiting") ~> Completed(1)

\* a call returned the value of the last candidate, after every candidate
\* had been invoked
C14_Witness ==
  /\ pc[1] = "returned"
  /\ TriedCount(1) = Len(MODELS)
  /\ trace[1][Len(trace[1])].model = MODELS[Len(MODELS)]

(***************************************************************************)
(* checkMarketStatus on all sorts of response texts                        *)
(***************************************************************************)

\* response texts of the market-status prompt, with and without the markers
MarkerTexts ==
  { JStr("STATUS: OPEN\nREASON: Regular trading session"),
    JStr("The market was shut.\nstatus:closed\nreason:  Weekend \nNo session."),
    JStr("Status:\n Unknown"),
    JStr("STATUS: maybe\nREASON: unsure"),
    JStr("I could not verify the calendar."),
    JStr("STATUS OPEN, REASON none"),
    JStr("STATUS: OPENED today"),
    JStr("STATUS: [CLOSED] REASON: [Holiday]"),
    JStr("status: closed. STATUS: OPEN"),
    JStr(""),
    Undefined }

\* the ways the API settles a request of the market-status prompt
StatusSettlements ==
  {Rejected(m) : m \in RejectMessages} \cup {Responded(t, <<>>) : t \in MarkerTexts}

\* one caller of checkMarketStatus, every response text
NextStatus ==
  \/ Call(1, "checkMarketStatus")
  \/ \E env \in StatusSettlements : Settle(1, env)
  \/ RequestEnds(1)
  \/ Resume(1)
  \/ UseCaseEnds(1)

SpecStatus == Init /\ [][NextStatus]_vars

\* the characters of text from index i on are those of word, the case of the
\* letters apart
FoldedAt(text, word, i) ==
  /\ i + Len(word) - 1 <= Len(text)
  /\ \A k \in 1..Len(word) : UpperCh(Ch(text, i + k - 1)) = Ch(word, k)

\* the text holds a recognisable status marker: "STATUS:", white space or
\* none, and one of the three words
HasStatusMarker(text) ==
  \E i \in 1..Len(text) : \E j \in (i + 7)..(Len(text) + 1) :
    /\ FoldedAt(text, "STATUS:", i)
    /\ \A k \in (i + 7)..(j - 1) : IsSpace(Ch(text, k))
    /\ \E w \in {"OPEN", "CLOSED", "UNKNOWN"} : FoldedAt(text, w, j)

\* the text holds a reason marker
HasReasonMarker(text) == \E i \in 1..Len(text) : FoldedAt(text, "REASON:", i)

\* the text of a response, the empty string standing for a missing one
TextOf(responseText) == IF responseText[1] = "str" THEN responseText[2] ELSE ""

\* v is a status value: an object of a status among the three and a reason
IsStatusValue(v) ==
  /\ v[1] = "obj" /\ Len(v[2]) = 2
  /\ v[2][1][1] = "status" /\ v[2][1][2][1] = "str"
  /\ v[2][1][2][2] \in {"OPEN", "CLOSED", "UNKNOWN"}
  /\ v[2][2][1] = "reason" /\ v[2][2][2][1] = "str"

\* C15: every value a fetch of checkMarketStatus returns has a status among
\* OPEN, CLOSED and UNKNOWN and is written to the cache; a response whose text
\* has no recognisable status marker gives UNKNOWN (with the reason "Requires
\* verification" when it has no reason marker either), and like any response
\* it is the success of its candidate: the call returns, no later candidate is
\* tried, and the value is stored
C15_StatusAmongThree ==
  [][\A c \in Callers :
       /\ FetchReturns(c) =>
            /\ outcome'[c].kind = "return" /\ IsStatusValue(outcome'[c].value)
            /\ storage'[CACHE_KEY] = Stored(JsonStringify(outcome'[c].value))
            /\ storage'[CACHE_TIME_KEY] = Stored(NatToString(now[c]))
            /\ trace'[c] = trace[c]
            /\ trace[c][Len(trace[c])] = Succeeded(MODELS[idx[c]], outcome'[c].value)
            /\ idx'[c] = idx[c] /\ issued'[c] = issued[c]
            /\ \A r \in requests' : r.caller # c
       /\ (fn[c] = "checkMarketStatus" /\ response[c].kind = "respond" /\ RequestEnds(c)) =>
            /\ result'[c].ok
            /\ ~HasStatusMarker(TextOf(response[c].text)) =>
                 GetMember(result'[c].value[2], "status") = JStr("UNKNOWN")
            /\ ~HasReasonMarker(TextOf(response[c].text)) =>
                 GetMember(result'[c].value[2], "reason") = JStr("Requires verification")
       /\ (fn[c] = "checkMarketStatus" /\ result[c].ok /\ Resume(c)) =>
            /\ ended'[c] = result[c]
            /\ trace'[c] = Append(trace[c], Succeeded(MODELS[idx[c]], result[c].value))
            /\ idx'[c] = idx[c] /\ issued'[c] = issued[c] /\ requests' = requests
       /\ (fn[c] = "checkMarketStatus" /\ ended[c].ok /\ UseCaseEnds(c)) =>
            FetchReturns(c) /\ outcome'[c] = Returned(ended[c].value)]_vars

\* the second candidate answered without any marker: the call returned
\* UNKNOWN and the value is in the cache
C15_Witness ==
  /\ ReturnedFromFallback(1) /\ TriedCount(1) = 2
  /\ outcome[1].value =
       JObj(<< <<"status", JStr("UNKNOWN")>>, <<"reason", JStr("Requires verification")>> >>)
  /\ storage[CACHE_KEY].value = "{\"status\":\"UNKNOWN\",\"reason\":\"Requires verification\"}"

(***************************************************************************)
(* checkMarketStatus when every candidate fails                            *)
(***************************************************************************)

\* the ways the API settles a request in the study of failed fetches
FailureSettlements ==
  {Rejected(PLAIN_MESSAGE), Responded(JStr("STATUS: OPEN\nREASON: Regular trading session"), <<>>)}

\* concurrent callers of checkMarketStatus whose fetches may fail to the end,
\* and a clock that moves by the lifetime of the cache
NextFailure ==
  \/ \E c \in Callers : Call(c, "checkMarketStatus")
  \/ \E c \in Callers, env \in FailureSettlements : Settle(c, env)
  \/ \E c \in Callers : RequestEnds(c)
  \/ \E c \in Callers : Resume(c)
  \/ \E c \in Callers : UseCaseEnds(c)
  \/ Tick(CACHE_DURATION)

SpecFailure == Init /\ [][NextFailure]_vars

\* this step is a step of caller c: it calls, the request of an attempt of
\* its settles, or a continuation of its call runs
StepOf(c) ==
  \/ calls'[c] # calls[c] \/ response'[c] # response[c] \/ result'[c] # result[c]
  \/ ended'[c] # ended[c] \/ trace'[c] # trace[c] \/ pc'[c] # pc[c]

\* C16: a fetch of checkMarketStatus in which every candidate fails throws the
\* aggregate error to the caller, and no step of that call, from the call that
\* misses the cache to the failure of the last candidate, changes the status
\* entry or the timestamp entry of the storage: a failed fetch neither creates
\* nor overwrites nor refreshes the cache
C16_FailedFetchKeepsCache ==
  [][\A c \in Callers :
       /\ (StepOf(c) /\ fn'[c] = "checkMarketStatus" /\ pc'[c] # "returned") =>
            /\ storage'[CACHE_KEY] = storage[CACHE_KEY]
            /\ storage'[CACHE_TIME_KEY] = storage[CACHE_TIME_KEY]
       /\ FetchThrows(c) =>
            /\ idx[c] = Len(MODELS)
            /\ Len(errors'[c]) = Len(MODELS)
            /\ outcome'[c] = Thrown("Error", "All models failed. Details:\n" \o join(errors'[c], "\n"))]_vars

\* the second call of a caller found its entry expired, fetched, and every
\* candidate failed: the storage still holds the value and the timestamp of
\* the first call
C16_Witness ==
  /\ calls[1] = 2 /\ pc[1] = "threw" /\ calls[2] = 0
  /\ now[1] >= StartTime + THIRTY_MINUTES
  /\ storage[CACHE_KEY] = Stored("{\"status\":\"OPEN\",\"reason\":\"Regular trading session\"}")
  /\ storage[CACHE_TIME_KEY] = Stored(NatToString(StartTime))

(***************************************************************************)
(* checkMarketStatus called for several dates                              *)
(***************************************************************************)

\* the dates the market status is asked of: a holiday and a trading day
Dates == {"2024-01-26", "2024-01-29"}

\* the response of the API to the market-status prompt, which names the date
ResponseFor(d) ==
  IF d = "2024-01-26"
  THEN Responded(JStr("STATUS: CLOSED\nREASON: " \o d \o " is Republic Day"), <<>>)
  ELSE Responded(JStr("STATUS: OPEN\nREASON: " \o d \o " is a trading day"), <<>>)

\* the ways the API settles a request of the market-status prompt for date d
DateSettlements(d) == {Rejected("invalid arg"), ResponseFor(d)}

\* concurrent callers of checkMarketStatus, each call for a date of its own
NextDates ==
  \/ \E c \in Callers, d \in Dates : CallWith(c, "checkMarketStatus", d)
  \/ \E c \in Callers : \E env \in DateSettlements(dateStr[c]) : Settle(c, env)
  \/ \E c \in Callers : RequestEnds(c)
  \/ \E c \in Callers : Resume(c)
  \/ \E c \in Callers : UseCaseEnds(c)
  \/ \E d \in TickSteps : Tick(d)

SpecDates == Init /\ [][NextDates]_vars

\* the status a fetch for date d gives
ComputedFor(d) ==
  IF d = "2024-01-26"
  THEN JObj(<< <<"status", JStr("CLOSED")>>, <<"reason", JStr("2024-01-26 is Republic Day")>> >>)
  ELSE JObj(<< <<"status", JStr("OPEN")>>, <<"reason", JStr(d \o " is a trading day")>> >>)

\* C17: the cache is one entry, whatever the date: a fetch for date d1 writes
\* the status computed for d1 under the one key, and a call for any date d2
\* made while that entry is less than 30 minutes old returns the status
\* computed for d1 and makes no request
C17_NotKeyedByDate ==
  [][\A c \in Callers :
       /\ FetchReturns(c) =>
            storage'[CACHE_KEY] = Stored(JsonStringify(ComputedFor(dateStr[c])))
       /\ \A d1 \in Dates : \A d2 \in Dates :
            (/\ CallsCheckMarketStatus(c) /\ dateStr'[c] = d2
             /\ storage[CACHE_KEY] = Stored(JsonStringify(ComputedFor(d1)))
             /\ TimestampFresh)
              => /\ pc'[c] = "returned"
                 /\ outcome'[c] = Returned(ComputedFor(d1))
                 /\ requests' = requests
                 /\ issued'[c] = 0
                 /\ storage' = storage]_vars

\* a call for the trading day was answered with the status of the holiday,
\* 29 minutes or more after that was fetched
C17_Witness ==
  \E c \in Callers :
    /\ dateStr[c] = "2024-01-29"
    /\ pc[c] = "returned" /\ trace[c] = <<>>
    /\ outcome[c] = Returned(ComputedFor("2024-01-26"))
    /\ now[c] - parseInt(storage[CACHE_TIME_KEY].value) >= 29 * 60 * 1000

(***************************************************************************)
(* The two entries of the cache as a pair                                  *)
(***************************************************************************)

\* this step writes the pair of caller c: the status is the value its fetch
\* returns, the timestamp the time it read on entry
WritesPairOf(c) ==
  /\ FetchReturns(c)
  /\ storage'[CACHE_KEY] = Stored(JsonStringify(outcome'[c].value))
  /\ storage'[CACHE_TIME_KEY] = Stored(NatToString(now[c]))
  /\ parseInt(storage'[CACHE_TIME_KEY].value) <= clock

\* C18: however the calls interleave, the stored status and the stored
\* timestamp come from one call: the storage holds both entries or neither,
\* and a step that changes an entry is the one step in which a fetch returns,
\* which sets the status to the value of that fetch and the timestamp to the
\* entry time of that call (which may be older than the timestamp replaced)
C18_PairFromOneCall ==
  /\ [](storage[CACHE_KEY].present <=> storage[CACHE_TIME_KEY].present)
  /\ [][\A c \in Callers :
          /\ storage' # storage => \E w \in Callers : WritesPairOf(w)
          /\ FetchReturns(c) => WritesPairOf(c)]_vars

\* the second caller entered first and wrote last: the timestamp in the
\* storage is older than the one the first caller had stored
C18_Witness ==
  /\ ReturnedFromFallback(1) /\ ReturnedFromFallback(2)
  /\ writer = 2 /\ now[2] < now[1]
  /\ storage[CACHE_TIME_KEY] = Stored(NatToString(now[2]))
  /\ storage[CACHE_KEY] = Stored(JsonStringify(outcome[2].value))
  /\ outcome[2].value # outcome[1].value

=============================================================================
